---- MODULE Spec2Model ----
(***************************************************************************)
(* claude-todo: the TODO analysis server (context extraction, multi-source *)
(* consolidation, priority override, cleanup analysis).                    *)
(*                                                                         *)
(* Text is modelled as a sequence of one-character strings, so that the   *)
(* regular expressions, String.includes, toLowerCase, trim, split and join *)
(* of the source are computed on characters and not assumed.               *)
(***************************************************************************)
EXTENDS Integers, Sequences, FiniteSets, TLC

(***************************************************************************)
(* JavaScript string primitives                                            *)
(***************************************************************************)

\* a function on 1..n as an array: the elements are computed once, here,
\* and not again at every access
Array(f) == f \o <<>>

\* a local constant of the source: In(value), the value computed once
With(value, In(_)) == In(value)

\* String.prototype.toLowerCase on one character
LowerMap ==
  [A |-> "a", B |-> "b", C |-> "c", D |-> "d", E |-> "e", F |-> "f", G |-> "g",
   H |-> "h", I |-> "i", J |-> "j", K |-> "k", L |-> "l", M |-> "m", N |-> "n",
   O |-> "o", P |-> "p", Q |-> "q", R |-> "r", S |-> "s", T |-> "t", U |-> "u",
   V |-> "v", W |-> "w", X |-> "x", Y |-> "y", Z |-> "z"]

UpperLetters == DOMAIN LowerMap

LowerChar(c) == IF c \in UpperLetters THEN LowerMap[c] ELSE c

\* String.prototype.toLowerCase
ToLower(s) == Array([i \in 1..Len(s) |-> LowerChar(s[i])])

\* the regular expression class \s
IsSpace(c) == c \in {" ", "\t", "\n"}

\* the regular expression class \w
IsWordChar(c) ==
  \/ c \in UpperLetters
  \/ c \in {"a","b","c","d","e","f","g","h","i","j","k","l","m",
            "n","o","p","q","r","s","t","u","v","w","x","y","z"}
  \/ c \in {"0","1","2","3","4","5","6","7","8","9","_"}

\* the text of s from position i (1-based) to the end
From(s, i) == SubSeq(s, i, Len(s))

\* pat occurs in s at position i
MatchAt(s, i, pat) ==
  /\ i >= 1
  /\ i + Len(pat) - 1 <= Len(s)
  /\ \A j \in 1..Len(pat) : s[i + j - 1] = pat[j]

\* pat, given in lower case, occurs in s at position i when case is
\* ignored (the i flag of a regular expression)
MatchAtI(s, i, pat) ==
  /\ i >= 1
  /\ i + Len(pat) - 1 <= Len(s)
  /\ \A j \in 1..Len(pat) : LowerChar(s[i + j - 1]) = pat[j]

\* String.prototype.includes
Includes(s, pat) == \E i \in 1..(Len(s) - Len(pat) + 1) : MatchAt(s, i, pat)

\* the least and the greatest element of a nonempty set of integers
Min(S) == CHOOSE x \in S : \A y \in S : x <= y

Max(S) == CHOOSE x \in S : \A y \in S : y <= x

\* the positions of s, in order
Indices(s) == Array([i \in 1..Len(s) |-> i])

\* first position >= i of s that is not white space (Len(s)+1 when none)
SkipSpaces(s, i) ==
  With({ j \in i..Len(s) : ~IsSpace(s[j]) }, LAMBDA stops :
    IF stops # {} THEN Min(stops) ELSE IF i > Len(s) THEN i ELSE Len(s) + 1)

\* last position <= i of s that is not white space (0 when none)
SkipSpacesBack(s, i) ==
  With({ j \in 1..i : ~IsSpace(s[j]) }, LAMBDA stops :
    IF stops # {} THEN Max(stops) ELSE IF i < 1 THEN i ELSE 0)

\* String.prototype.trim
Trim(s) == SubSeq(s, SkipSpaces(s, 1), SkipSpacesBack(s, Len(s)))

\* String.prototype.split on a one-character separator
Split(s, sep) ==
  With(SelectSeq(Indices(s), LAMBDA i : s[i] = sep), LAMBDA seps :
    Array([k \in 1..(Len(seps) + 1) |->
             SubSeq(s, IF k = 1 THEN 1 ELSE seps[k - 1] + 1,
                       IF k = Len(seps) + 1 THEN Len(s) ELSE seps[k] - 1)]))

\* Array.prototype.join
RECURSIVE Join(_, _)
Join(parts, sep) ==
  IF Len(parts) = 0 THEN <<>>
  ELSE IF Len(parts) = 1 THEN parts[1]
  ELSE With(Len(parts) \div 2, LAMBDA half :
         Join(SubSeq(parts, 1, half), sep) \o sep
           \o Join(SubSeq(parts, half + 1, Len(parts)), sep))

\* Array.prototype.flat, and a sequence of pushes of several items each
RECURSIVE Flatten(_)
Flatten(ss) ==
  IF Len(ss) = 0 THEN <<>>
  ELSE IF Len(ss) = 1 THEN ss[1]
  ELSE With(Len(ss) \div 2, LAMBDA half :
         Flatten(SubSeq(ss, 1, half)) \o Flatten(SubSeq(ss, half + 1, Len(ss))))

\* Array.prototype.some over a list of keywords, with String.includes
IncludesAny(s, keywords) == \E k \in 1..Len(keywords) : Includes(s, keywords[k])

(***************************************************************************)
(* types/todo-types: keyword tables                                        *)
(***************************************************************************)

PRIORITY_KEYWORDS_high ==
  << <<"u","r","g","e","n","t">>,
     <<"c","r","i","t","i","c","a","l">>,
     <<"i","m","p","o","r","t","a","n","t">>,
     <<"a","s","a","p">>,
     <<"i","m","m","e","d","i","a","t","e","l","y">>,
     <<"m","u","s","t">>,
     <<"r","e","q","u","i","r","e","d">>,
     <<"b","l","o","c","k","i","n","g">> >>

PRIORITY_KEYWORDS_medium ==
  << <<"s","h","o","u","l","d">>,
     <<"n","e","e","d">>,
     <<"i","m","p","r","o","v","e","m","e","n","t">>,
     <<"e","n","h","a","n","c","e">>,
     <<"o","p","t","i","m","i","z","e">>,
     <<"r","e","f","a","c","t","o","r">> >>

PRIORITY_KEYWORDS_low ==
  << <<"n","i","c","e">>,
     <<"m","a","y","b","e">>,
     <<"c","o","n","s","i","d","e","r">>,
     <<"c","o","u","l","d">>,
     <<"m","i","g","h","t">>,
     <<"o","p","t","i","o","n","a","l">>,
     <<"f","u","t","u","r","e">> >>

(***************************************************************************)
(* OriginalTodoAnalyzer (context extraction)                               *)
(***************************************************************************)

\* the alternatives of the four todoPatterns, matched case-insensitively
todoPattern1 ==
  << <<"t","o","d","o">>,
     <<"f","i","x","m","e">>,
     <<"h","a","c","k">>,
     <<"x","x","x">>,
     <<"b","u","g">>,
     <<"n","o","t","e">> >>

todoPattern2 ==
  << <<"n","e","e","d"," ","t","o">>,
     <<"s","h","o","u","l","d">>,
     <<"m","u","s","t">>,
     <<"h","a","v","e"," ","t","o">>,
     <<"g","o","i","n","g"," ","t","o">> >>

todoPattern3 ==
  << <<"i","m","p","l","e","m","e","n","t">>,
     <<"a","d","d">>,
     <<"c","r","e","a","t","e">>,
     <<"b","u","i","l","d">>,
     <<"f","i","x">>,
     <<"u","p","d","a","t","e">>,
     <<"r","e","f","a","c","t","o","r">> >>

todoPattern4 ==
  << <<"n","e","x","t">>,
     <<"t","h","e","n">>,
     <<"a","f","t","e","r">>,
     <<"l","a","t","e","r">> >>

\* the patterns in the order of the array; tail "opt" is (?:\s*[:\-]?\s*)(.*)
\* and tail "req" is \s+(.+)
todoPatterns ==
  << [words |-> todoPattern1, tail |-> "opt"],
     [words |-> todoPattern2, tail |-> "req"],
     [words |-> todoPattern3, tail |-> "req"],
     [words |-> todoPattern4, tail |-> "opt"] >>

NoMatch == [matched |-> FALSE, group |-> <<>>]

\* the longest prefix without a line terminator: what (.*) can match
UpToNewline(s) ==
  With({ j \in 1..Len(s) : s[j] = "\n" }, LAMBDA ends :
    IF ends = {} THEN s ELSE SubSeq(s, 1, Min(ends) - 1))

\* (?:\s*[:\-]?\s*)(.*) applied at position i: the quantifiers are greedy
\* and (.*) accepts whatever is left, so no backtracking takes place
TailOpt(line, i) ==
  With(SkipSpaces(line, i), LAMBDA a :
  With((IF a <= Len(line) /\ line[a] \in {":", "-"} THEN a + 1 ELSE a), LAMBDA b :
  With(SkipSpaces(line, b), LAMBDA c :
    [matched |-> TRUE, group |-> UpToNewline(From(line, c))])))

\* \s+(.+) applied at position i: \s+ is greedy and gives one character
\* back when it has swallowed the rest of the line
TailReq(line, i) ==
  IF ~(i <= Len(line) /\ IsSpace(line[i])) THEN NoMatch
  ELSE With(SkipSpaces(line, i), LAMBDA j :
         IF j <= Len(line) THEN [matched |-> TRUE, group |-> From(line, j)]
         ELSE IF j - i >= 2 THEN [matched |-> TRUE, group |-> From(line, Len(line))]
         ELSE NoMatch)

\* the pattern tried with its alternation starting at position k of the
\* line: (?:^|\s) is satisfied by the start of the line or by a white
\* space character just before k
TryAt(line, pat, k) ==
  LET Tl(w) == IF pat.tail = "opt" THEN TailOpt(line, k + Len(pat.words[w]))
               ELSE TailReq(line, k + Len(pat.words[w]))
  IN  With({ w \in 1..Len(pat.words) : MatchAtI(line, k, pat.words[w]) }, LAMBDA hits :
      With({ w \in hits : Tl(w).matched }, LAMBDA good :
        IF (k = 1 \/ IsSpace(line[k - 1])) /\ good # {}
        THEN Tl(CHOOSE w \in good : \A v \in good : w <= v)
        ELSE NoMatch))

\* line.matchAll(pattern): the leftmost match; its group runs to the end
\* of the line, so a line yields at most one match per pattern
FirstMatch(line, pat, k) ==
  With({ j \in k..Len(line) : TryAt(line, pat, j).matched }, LAMBDA starts :
    IF starts = {} THEN NoMatch ELSE TryAt(line, pat, Min(starts)))

\* OriginalTodoAnalyzer.determinePriority (the services use the same body)
determinePriority(content) ==
  With(ToLower(content), LAMBDA lowerContent :
    IF IncludesAny(lowerContent, PRIORITY_KEYWORDS_high) THEN "high"
    ELSE IF IncludesAny(lowerContent, PRIORITY_KEYWORDS_medium) THEN "medium"
    ELSE IF IncludesAny(lowerContent, PRIORITY_KEYWORDS_low) THEN "low"
    ELSE "medium")

\* OriginalTodoAnalyzer.determineCategory
determineCategory(content) ==
  With(ToLower(content), LAMBDA lowerContent :
    LET Has(w) == Includes(lowerContent, w)
    IN  IF Has(<<"t","e","s","t">>) \/ Has(<<"s","p","e","c">>) THEN "testing"
        ELSE IF Has(<<"b","u","g">>) \/ Has(<<"f","i","x">>) THEN "bug-fix"
        ELSE IF Has(<<"d","o","c">>) \/ Has(<<"c","o","m","m","e","n","t">>) THEN "documentation"
        ELSE IF Has(<<"r","e","f","a","c","t","o","r">>) \/ Has(<<"o","p","t","i","m","i","z","e">>) THEN "refactoring"
        ELSE IF Has(<<"i","m","p","l","e","m","e","n","t">>) \/ Has(<<"a","d","d">>)
                \/ Has(<<"c","r","e","a","t","e">>) THEN "feature"
        ELSE "general")

SourceContext == <<"c","u","r","r","e","n","t","-","c","o","n","t","e","x","t">>

\* the body of the loops of analyzeTodos for one line and one pattern:
\* the content of the record pushed, or nothing
ExtractOne(line, pat) ==
  With(FirstMatch(line, pat, 1), LAMBDA m :
  With(Trim(m.group), LAMBDA content :
    IF m.matched /\ Len(content) > 3 THEN <<content>> ELSE <<>>))

\* the loops of analyzeTodos over the lines and, for each line, over the
\* patterns: the records pushed, numbered by idCounter in that order
ExtractLoop(lines) ==
  With(Len(todoPatterns), LAMBDA np :
  With(Array([n \in 1..(Len(lines) * np) |->
                ExtractOne(lines[((n - 1) \div np) + 1], todoPatterns[((n - 1) % np) + 1])]),
       LAMBDA found :
  With(SelectSeq(found, LAMBDA f : f # <<>>), LAMBDA pushed :
    Array([i \in 1..Len(pushed) |->
             [id |-> [tag |-> <<"context">>, n |-> i],
              content |-> pushed[i][1],
              priority |-> determinePriority(pushed[i][1]),
              category |-> determineCategory(pushed[i][1]),
              source |-> SourceContext]]))))

\* OriginalTodoAnalyzer.deduplicateTodos: a record is kept when no
\* earlier record has its normalized content
deduplicateTodos(todos) ==
  With(Array([i \in 1..Len(todos) |-> Trim(ToLower(todos[i].content))]), LAMBDA normalized :
  With(SelectSeq(Indices(todos),
                 LAMBDA i : \A j \in 1..(i - 1) : normalized[j] # normalized[i]),
       LAMBDA kept :
    Array([k \in 1..Len(kept) |-> todos[kept[k]]])))

CountPriority(todos, p) == Len(SelectSeq(todos, LAMBDA t : t.priority = p))

\* the summary object built by analyzeTodos and by generateSummary
generateSummary(todos) ==
  [total |-> Len(todos),
   high_priority |-> CountPriority(todos, "high"),
   medium_priority |-> CountPriority(todos, "medium"),
   low_priority |-> CountPriority(todos, "low")]

\* OriginalTodoAnalyzer.analyzeTodos
analyzeTodos(context) ==
  With(deduplicateTodos(ExtractLoop(Split(context, "\n"))), LAMBDA uniqueTodos :
    [todos |-> uniqueTodos, summary |-> generateSummary(uniqueTodos)])

(***************************************************************************)
(* EnhancedTodoAnalyzer: consolidation and priority override               *)
(***************************************************************************)

\* the UTF-16 order of the characters that survive toLowerCase and the
\* removal of [^\w\s], as used by Array.prototype.sort
CharOrder == <<" ","0","1","2","3","4","5","6","7","8","9","_","a","b","c","d","e","f","g","h","i","j","k","l","m","n","o","p","q","r","s","t","u","v","w","x","y","z">>

CharRank(c) == IF \E i \in 1..Len(CharOrder) : CharOrder[i] = c
               THEN CHOOSE i \in 1..Len(CharOrder) : CharOrder[i] = c
               ELSE 0

\* a < b in the default comparison of Array.prototype.sort
StrLess(a, b) ==
  With({ i \in 1..Len(a) : i <= Len(b) /\ a[i] # b[i] }, LAMBDA differ :
    IF differ = {} THEN Len(a) < Len(b)
    ELSE CharRank(a[Min(differ)]) < CharRank(b[Min(differ)]))

\* Array.prototype.sort on strings: the sort is stable, so a word comes
\* after the words that are less and after the equal words before it
SortWords(words) ==
  LET Rank(i) == Cardinality({ j \in 1..Len(words) :
                                 \/ StrLess(words[j], words[i])
                                 \/ (words[j] = words[i] /\ j < i) }) + 1
  IN  Array([k \in 1..Len(words) |-> words[CHOOSE i \in 1..Len(words) : Rank(i) = k]])

\* replace(/\s+/g, ' ')
CollapseSpaces(s) ==
  With(SelectSeq(Indices(s), LAMBDA i : ~IsSpace(s[i]) \/ i = 1 \/ ~IsSpace(s[i - 1])),
       LAMBDA kept :
    Array([k \in 1..Len(kept) |-> IF IsSpace(s[kept[k]]) THEN " " ELSE s[kept[k]]]))

\* the key without the sort of its words
normalizeForConsolidation_Unsorted(content) ==
  With(ToLower(content), LAMBDA lower :
  With(SelectSeq(lower, LAMBDA c : IsWordChar(c) \/ IsSpace(c)), LAMBDA noPunct :
    Trim(CollapseSpaces(noPunct))))

\* the key with the punctuation left in its words
normalizeForConsolidation_KeepPunctuation(content) ==
  With(ToLower(content), LAMBDA lower :
  With(Trim(CollapseSpaces(lower)), LAMBDA trimmed :
    Join(SortWords(Split(trimmed, " ")), <<" ">>)))

\* EnhancedTodoAnalyzer.normalizeForConsolidation
normalizeForConsolidation(content) ==
  With(ToLower(content), LAMBDA lower :
  With(SelectSeq(lower, LAMBDA c : IsWordChar(c) \/ IsSpace(c)), LAMBDA noPunct :
  With(Trim(CollapseSpaces(noPunct)), LAMBDA trimmed :
    Join(SortWords(Split(trimmed, " ")), <<" ">>))))

\* the priority of the primary record
getHighestPriority_Primary(priorities) == priorities[1]

\* EnhancedTodoAnalyzer.getHighestPriority
getHighestPriority(priorities) ==
  IF \E i \in 1..Len(priorities) : priorities[i] = "high" THEN "high"
  ELSE IF \E i \in 1..Len(priorities) : priorities[i] = "medium" THEN "medium"
  ELSE "low"

\* [...new Set(xs)]: the distinct elements in order of first appearance
Distinct(xs) ==
  With(SelectSeq(Indices(xs), LAMBDA i : \A j \in 1..(i - 1) : xs[j] # xs[i]), LAMBDA first :
    Array([k \in 1..Len(first) |-> xs[first[k]]]))

\* the merged record keeps the source of the primary record only
MergeGroup_PrimarySource(groupTodos) ==
  IF Len(groupTodos) = 1 THEN groupTodos[1]
  ELSE With(groupTodos[1], LAMBDA primary :
       With(getHighestPriority(Array([i \in 1..Len(groupTodos) |-> groupTodos[i].priority])),
            LAMBDA highestPriority :
         [primary EXCEPT !.priority = highestPriority,
                         !.id = [tag |-> <<"consolidated">> \o primary.id.tag,
                                 n |-> primary.id.n]]))

\* the record emitted by consolidateDuplicates for one group of the Map
MergeGroup(groupTodos) ==
  IF Len(groupTodos) = 1 THEN groupTodos[1]
  ELSE With(groupTodos[1], LAMBDA primary :
       With(Distinct(Array([i \in 1..Len(groupTodos) |-> groupTodos[i].source])),
            LAMBDA sources :
       With(getHighestPriority(Array([i \in 1..Len(groupTodos) |-> groupTodos[i].priority])),
            LAMBDA highestPriority :
         [primary EXCEPT !.priority = highestPriority,
                         !.source = Join(sources, <<"+">>),
                         !.id = [tag |-> <<"consolidated">> \o primary.id.tag,
                                 n |-> primary.id.n]])))

\* EnhancedTodoAnalyzer.consolidateDuplicates: the Map keeps its keys in
\* insertion order and each group in input order
consolidateDuplicates(todos) ==
  With(Array([i \in 1..Len(todos) |-> normalizeForConsolidation(todos[i].content)]),
       LAMBDA normalized :
  With(Distinct(normalized), LAMBDA keys :
    LET members(key) == SelectSeq(Indices(todos), LAMBDA i : normalized[i] = key)
        Group(key) == Array([m \in 1..Len(members(key)) |-> todos[members(key)[m]]])
    IN  Array([g \in 1..Len(keys) |-> MergeGroup(Group(keys[g]))])))

securityKeywords ==
  << <<"s","e","c","u","r","i","t","y">>,
     <<"a","u","t","h">>,
     <<"p","a","s","s","w","o","r","d">>,
     <<"t","o","k","e","n">>,
     <<"e","n","c","r","y","p","t">>,
     <<"d","e","c","r","y","p","t">>,
     <<"v","u","l","n","e","r","a","b","i","l","i","t","y">>,
     <<"x","s","s">>,
     <<"s","q","l"," ","i","n","j","e","c","t","i","o","n">>,
     <<"c","s","r","f">>,
     <<"s","a","n","i","t","i","z","e">> >>

criticalKeywords ==
  << <<"p","a","y","m","e","n","t">>,
     <<"b","i","l","l","i","n","g">>,
     <<"t","r","a","n","s","a","c","t","i","o","n">>,
     <<"o","r","d","e","r">>,
     <<"c","h","e","c","k","o","u","t">>,
     <<"d","a","t","a"," ","l","o","s","s">>,
     <<"c","o","r","r","u","p","t","i","o","n">>,
     <<"b","a","c","k","u","p">>,
     <<"r","e","c","o","v","e","r","y">> >>

niceToHaveKeywords ==
  << <<"n","i","c","e"," ","t","o"," ","h","a","v","e">>,
     <<"o","p","t","i","o","n","a","l">>,
     <<"m","a","y","b","e">>,
     <<"c","o","n","s","i","d","e","r">>,
     <<"c","o","u","l","d">>,
     <<"u","i"," ","i","m","p","r","o","v","e","m","e","n","t">>,
     <<"p","o","l","i","s","h">>,
     <<"c","o","s","m","e","t","i","c">> >>

\* EnhancedTodoAnalyzer.isSecurityRelated
isSecurityRelated(content) == IncludesAny(content, securityKeywords)

\* EnhancedTodoAnalyzer.isCriticalBusinessLogic
isCriticalBusinessLogic(content) == IncludesAny(content, criticalKeywords)

\* EnhancedTodoAnalyzer.isNiceToHave
isNiceToHave(content) == IncludesAny(content, niceToHaveKeywords)

\* the default of the keyword scoring in the place of the record's priority
enhancedPriorityAnalysis_MediumDefault(todo) ==
  With(ToLower(todo.content), LAMBDA content :
    IF isSecurityRelated(content) THEN "high"
    ELSE IF isCriticalBusinessLogic(content) THEN "high"
    ELSE IF todo.category = "bug-fix" /\ Includes(todo.source, <<"c","o","d","e","b","a","s","e">>) THEN "high"
    ELSE IF isNiceToHave(content) THEN "low"
    ELSE "medium")

\* the nice-to-have test made first
enhancedPriorityAnalysis_NiceFirst(todo) ==
  With(ToLower(todo.content), LAMBDA content :
    IF isNiceToHave(content) THEN "low"
    ELSE IF isSecurityRelated(content) THEN "high"
    ELSE IF isCriticalBusinessLogic(content) THEN "high"
    ELSE IF todo.category = "bug-fix" /\ Includes(todo.source, <<"c","o","d","e","b","a","s","e">>) THEN "high"
    ELSE todo.priority)

\* EnhancedTodoAnalyzer.enhancedPriorityAnalysis
enhancedPriorityAnalysis(todo) ==
  With(ToLower(todo.content), LAMBDA content :
    IF isSecurityRelated(content) THEN "high"
    ELSE IF isCriticalBusinessLogic(content) THEN "high"
    ELSE IF todo.category = "bug-fix" /\ Includes(todo.source, <<"c","o","d","e","b","a","s","e">>) THEN "high"
    ELSE IF isNiceToHave(content) THEN "low"
    ELSE todo.priority)

\* EnhancedTodoAnalyzer.reprioritizeTodos
reprioritizeTodos(todos) ==
  Array([i \in 1..Len(todos) |-> [todos[i] EXCEPT !.priority = enhancedPriorityAnalysis(todos[i])]])

(***************************************************************************)
(* RepomixService                                                          *)
(***************************************************************************)

SourceCodebase == <<"c","o","d","e","b","a","s","e">>

\* result.content.match(/(?:TODO|FIXME|HACK|XXX|BUG|NOTE)(?:\s*[:\-]?\s*)(.*)/i):
\* the leftmost marker, with no condition on the character before it
MarkerMatch(text, k) ==
  LET Hits(j) == { w \in 1..Len(todoPattern1) : MatchAtI(text, j, todoPattern1[w]) }
  IN  With({ j \in k..Len(text) : Hits(j) # {} }, LAMBDA starts :
        IF starts = {} THEN NoMatch
        ELSE TailOpt(text, Min(starts) + Len(todoPattern1[Min(Hits(Min(starts)))])))

\* RepomixService.determineCategory
repomixDetermineCategory(content) ==
  With(ToLower(content), LAMBDA lowerContent :
  LET Has(w) == Includes(lowerContent, w)
  IN  IF Has(<<"t","e","s","t">>) \/ Has(<<"s","p","e","c">>) THEN "testing"
      ELSE IF Has(<<"b","u","g">>) \/ Has(<<"f","i","x">>) THEN "bug-fix"
      ELSE IF Has(<<"i","m","p","l","e","m","e","n","t">>) \/ Has(<<"a","d","d">>)
              \/ Has(<<"c","r","e","a","t","e">>) THEN "feature"
      ELSE IF Has(<<"r","e","f","a","c","t","o","r">>) \/ Has(<<"o","p","t","i","m","i","z","e">>) THEN "refactoring"
      ELSE IF Has(<<"d","o","c">>) \/ Has(<<"c","o","m","m","e","n","t">>) THEN "documentation"
      ELSE "general")

\* RepomixService.parseGrepResult: the list of records so far and the
\* idCounter are threaded through; a rejected hit leaves both unchanged
parseGrepResult(acc, result) ==
  With(MarkerMatch(result.content, 1), LAMBDA todoMatch :
  With(Trim(todoMatch.group), LAMBDA content :
    IF ~todoMatch.matched \/ todoMatch.group = <<>> THEN acc
    ELSE IF Len(content) < 3 THEN acc
    ELSE [todos |-> Append(acc.todos,
                      [id |-> [tag |-> <<"todo">>, n |-> acc.idCounter],
                       content |-> content,
                       priority |-> determinePriority(content),
                       category |-> repomixDetermineCategory(content),
                       source |-> SourceCodebase,
                       file |-> result.file,
                       line |-> result.line]),
          idCounter |-> acc.idCounter + 1]))

\* the loop of RepomixService.findTodosInCodebase over the grep results
RECURSIVE ParseGrepResults(_, _)
ParseGrepResults(acc, grepResults) ==
  IF grepResults = <<>> THEN acc
  ELSE ParseGrepResults(parseGrepResult(acc, Head(grepResults)), Tail(grepResults))

(***************************************************************************)
(* TreeSitterService                                                       *)
(***************************************************************************)

SourceSemantic == <<"s","e","m","a","n","t","i","c">>

SourceStructural == <<"s","t","r","u","c","t","u","r","a","l">>

\* the pattern of findSemanticTodos
SemanticPattern == <<"(","T","O","D","O","|","F","I","X","M","E","|","H","A","C","K","|","X","X","X","|","B","U","G","|","N","O","T","E",")">>

\* the patterns of findStructuralTodos, as the strings the literals denote
structuralPatterns ==
  << <<"r","e","t","u","r","n"," ","f","a","l","s","e",";">>,
     <<"r","e","t","u","r","n"," ","n","u","l","l",";">>,
     <<"t","h","r","o","w"," ","n","e","w"," ","E","r","r","o","r","\\","(",".","*","n","o","t"," ","i","m","p","l","e","m","e","n","t","e","d",".","*","\\",")">>,
     <<"c","o","n","s","o","l","e","\\",".","l","o","g","\\","(",".","*","T","O","D","O",".","*","\\",")">>,
     <<"/","/"," ","*","$">> >>

\* TreeSitterService.determineCategory
treeSitterDetermineCategory(content) ==
  With(ToLower(content), LAMBDA lowerContent :
  LET Has(w) == Includes(lowerContent, w)
  IN  IF Has(<<"t","e","s","t">>) \/ Has(<<"s","p","e","c">>) THEN "testing"
      ELSE IF Has(<<"b","u","g">>) \/ Has(<<"f","i","x">>) THEN "bug-fix"
      ELSE IF Has(<<"d","o","c">>) \/ Has(<<"c","o","m","m","e","n","t">>) THEN "documentation"
      ELSE IF Has(<<"r","e","f","a","c","t","o","r">>) \/ Has(<<"o","p","t","i","m","i","z","e">>) THEN "refactoring"
      ELSE IF Has(<<"i","m","p","l","e","m","e","n","t">>) \/ Has(<<"a","d","d">>)
              \/ Has(<<"c","r","e","a","t","e">>) THEN "feature"
      ELSE "general")

\* TreeSitterService.parseSemanticResult; a search result is a record
\* whose hasText field says whether result.text is defined
parseSemanticResult(acc, result) ==
  With(MarkerMatch(result.text, 1), LAMBDA todoMatch :
  With(Trim(todoMatch.group), LAMBDA content :
    IF ~result.hasText \/ result.text = <<>> \/ result.file = <<>> THEN acc
    ELSE IF ~todoMatch.matched \/ todoMatch.group = <<>> THEN acc
    ELSE IF Len(content) < 3 THEN acc
    ELSE [todos |-> Append(acc.todos,
                      [id |-> [tag |-> <<"semantic", "todo">>, n |-> acc.idCounter],
                       content |-> content,
                       priority |-> determinePriority(content),
                       category |-> treeSitterDetermineCategory(content),
                       source |-> SourceSemantic,
                       file |-> result.file,
                       line |-> result.line,
                       column |-> result.column]),
          idCounter |-> acc.idCounter + 1]))

RECURSIVE ParseSemanticResults(_, _)
ParseSemanticResults(acc, results) ==
  IF results = <<>> THEN acc
  ELSE ParseSemanticResults(parseSemanticResult(acc, Head(results)), Tail(results))

\* TreeSitterService.createStructuralTodo
createStructuralTodo(acc, result, pattern) ==
  LET Mk(content, category) ==
        [todos |-> Append(acc.todos,
                     [id |-> [tag |-> <<"structural", "todo">>, n |-> acc.idCounter],
                      content |-> content,
                      priority |-> "medium",
                      category |-> category,
                      source |-> SourceStructural,
                      file |-> result.file,
                      line |-> result.line]),
         idCounter |-> acc.idCounter + 1]
  IN  IF result.file = <<>> \/ result.line = 0 THEN acc
      ELSE IF Includes(pattern, <<"r","e","t","u","r","n"," ","f","a","l","s","e">>)
        THEN Mk(<<"C","o","m","p","l","e","t","e"," ","i","m","p","l","e","m","e","n","t","a","t","i","o","n"," ","(","c","u","r","r","e","n","t","l","y"," ","r","e","t","u","r","n","s"," ","p","l","a","c","e","h","o","l","d","e","r"," ","f","a","l","s","e",")">>,
                "feature")
      ELSE IF Includes(pattern, <<"r","e","t","u","r","n"," ","n","u","l","l">>)
        THEN Mk(<<"C","o","m","p","l","e","t","e"," ","i","m","p","l","e","m","e","n","t","a","t","i","o","n"," ","(","c","u","r","r","e","n","t","l","y"," ","r","e","t","u","r","n","s"," ","p","l","a","c","e","h","o","l","d","e","r"," ","n","u","l","l",")">>,
                "feature")
      ELSE IF Includes(pattern, <<"n","o","t"," ","i","m","p","l","e","m","e","n","t","e","d">>)
        THEN Mk(<<"I","m","p","l","e","m","e","n","t"," ","m","e","t","h","o","d"," ","(","c","u","r","r","e","n","t","l","y"," ","t","h","r","o","w","s"," ","\"","n","o","t"," ","i","m","p","l","e","m","e","n","t","e","d","\""," ","e","r","r","o","r",")">>,
                "feature")
      ELSE IF Includes(pattern, <<"c","o","n","s","o","l","e",".","l","o","g">>)
        THEN Mk(<<"R","e","p","l","a","c","e"," ","c","o","n","s","o","l","e",".","l","o","g"," ","w","i","t","h"," ","p","r","o","p","e","r"," ","i","m","p","l","e","m","e","n","t","a","t","i","o","n">>,
                "refactoring")
      ELSE acc

RECURSIVE CreateStructuralTodos(_, _, _)
CreateStructuralTodos(acc, results, pattern) ==
  IF results = <<>> THEN acc
  ELSE CreateStructuralTodos(createStructuralTodo(acc, Head(results), pattern),
                             Tail(results), pattern)

\* the text of s from position i as long as the characters are in \w
WordRun(s, i) ==
  With({ j \in i..Len(s) : ~IsWordChar(s[j]) }, LAMBDA stops :
    SubSeq(s, i, IF stops = {} THEN Len(s) ELSE Min(stops) - 1))

implementVerbs == << <<"i","m","p","l","e","m","e","n","t">>, <<"a","d","d">>, <<"c","r","e","a","t","e">> >>

featureStems ==
  << <<"a","u","t","h">>, <<"l","o","g","i","n">>, <<"u","s","e","r">>,
     <<"p","a","y","m","e","n","t">>, <<"s","e","a","r","c","h">>, <<"v","a","l","i","d","a","t","e">> >>

\* content.match(/(?:implement|add|create)\s+(\w+)/i): the group of the
\* leftmost match, as a list of zero or one term
FunctionMatch(content, k) ==
  LET Arg(j, w) == LET i == j + Len(implementVerbs[w])
                   IN  IF i <= Len(content) /\ IsSpace(content[i])
                       THEN WordRun(content, SkipSpaces(content, i)) ELSE <<>>
      Good(j) == { w \in 1..Len(implementVerbs) :
                     MatchAtI(content, j, implementVerbs[w]) /\ Arg(j, w) # <<>> }
  IN  With({ j \in k..Len(content) : Good(j) # {} }, LAMBDA starts :
        IF starts = {} THEN <<>>
        ELSE << Arg(Min(starts), Min(Good(Min(starts)))) >>)

\* content.match(/\b(auth|login|user|payment|search|validate)\w*/gi): all
\* the matches from left to right.  A match starts at a word boundary and
\* takes the rest of its word, so no position inside a match is a boundary
\* and the matches are the words that begin with a stem
FeatureMatches(content, k) ==
  With(SelectSeq(Indices(content), LAMBDA j :
         /\ j >= k
         /\ (j = 1 \/ ~IsWordChar(content[j - 1]))
         /\ \E w \in 1..Len(featureStems) : MatchAtI(content, j, featureStems[w])),
       LAMBDA starts :
    Array([i \in 1..Len(starts) |-> WordRun(content, starts[i])]))

\* TreeSitterService.extractImplementationTerms
extractImplementationTerms(content) ==
  FunctionMatch(content, 1) \o FeatureMatches(content, 1)

\* the test of checkIfSuperseded on one search result
HasImplementationText(text) ==
  \/ Includes(text, <<"f","u","n","c","t","i","o","n">>)
  \/ Includes(text, <<"m","e","t","h","o","d">>)
  \/ Includes(text, <<"c","l","a","s","s">>)
  \/ Includes(text, <<"=",">">>)

\* extractProjectName of both classes
extractProjectName(projectPath) ==
  With(Split(projectPath, "/"), LAMBDA parts :
  With(parts[Len(parts)], LAMBDA last :
    IF last = <<>> THEN <<"u","n","k","n","o","w","n","-","p","r","o","j","e","c","t">> ELSE last))

(***************************************************************************)
(* The external services (mcpClient) and the file system, as the server    *)
(* sees them: each behaviour answers a call as a function of its pattern.  *)
(***************************************************************************)

Fails == [ok |-> FALSE, results |-> <<>>]

Returns(results) == [ok |-> TRUE, results |-> results]

\* the pattern findTodosInCodebase sends: todoPattern.source
CodebaseTodoPattern == <<"(","?",":","T","O","D","O","|","F","I","X","M","E","|","H","A","C","K","|","X","X","X","|","B","U","G","|","N","O","T","E",")","(","?",":","\\","s","*","[",":","\\","-","]","?","\\","s","*",")","(",".","*",")">>

\* a GrepResult as mcpClient.grepRepomixOutput builds it: file, line,
\* content and match, and no text property
GrepHit(file, line, content) ==
  [file |-> file, line |-> line, content |-> content, match |-> content,
   hasText |-> FALSE, text |-> <<>>]

FileA == <<"s","r","c","/","a",".","t","s">>

\* how mcpClient.grepRepomixOutput can behave for a packed codebase
GrepBehaviours == {"down", "code"}

\* further packed outputs: one whose only marker is the line
\* "// TODO: fix" ("terse"), and one without any match on which the
\* searches for update and for parse time out ("flaky")
CleanupSearches == GrepBehaviours \cup {"terse", "flaky"}

\* a hit that carries its line as text as well
GrepHitWithText(file, line, content) ==
  [file |-> file, line |-> line, content |-> content, match |-> content,
   hasText |-> TRUE, text |-> content]

grepRepomixOutput(behaviour, pattern) ==
  IF behaviour = "down" THEN Fails
  ELSE IF behaviour = "withText"
    THEN (IF Includes(ToLower(pattern), <<"d","o","c","s">>) \/ pattern = <<"u","p","d","a","t","e">>
          THEN Returns(<< GrepHitWithText(FileA, 40, <<"e","x","p","o","r","t"," ","f","u","n","c","t","i","o","n"," ","u","p","d","a","t","e","D","o","c","s","(",")"," ","{"," ","/","/"," ","d","o","n","e">>) >>)
          ELSE IF Includes(ToLower(pattern), <<"t","e","s","t","s">>)
          THEN Returns(<< GrepHitWithText(FileA, 50, <<"/","/"," ","t","e","s","t","s"," ","f","i","n","i","s","h","e","d">>) >>)
          ELSE Returns(<<>>))
  ELSE IF behaviour = "flaky"
    THEN (IF Includes(ToLower(pattern), <<"u","p","d","a","t","e">>)
             \/ Includes(ToLower(pattern), <<"p","a","r","s","e">>)
          THEN Fails ELSE Returns(<<>>))
  ELSE IF behaviour = "terse" /\ pattern = CodebaseTodoPattern
    THEN Returns(<< GrepHit(FileA, 2, <<"/","/"," ","T","O","D","O",":"," ","f","i","x">>) >>)
  ELSE IF behaviour = "code" /\ pattern = CodebaseTodoPattern
    THEN Returns(<< GrepHit(FileA, 3, <<"/","/"," ","T","O","D","O",":"," ","f","i","x"," ","l","o","g","i","n"," ","b","u","g">>),
                    GrepHit(FileA, 7, <<"/","/"," ","F","I","X","M","E",":"," ","a","b">>),
                    GrepHit(FileA, 9, <<"#"," ","t","o","d","o"," ","-"," ","U","p","d","a","t","e"," ","d","o","c","s","!">>) >>)
  ELSE IF behaviour = "code"
          /\ (Includes(ToLower(pattern), <<"d","o","c","s">>) \/ pattern = <<"u","p","d","a","t","e">>)
    THEN Returns(<< GrepHit(FileA, 40, <<"e","x","p","o","r","t"," ","f","u","n","c","t","i","o","n"," ","u","p","d","a","t","e","D","o","c","s","(",")"," ","{"," ","/","/"," ","d","o","n","e">>) >>)
  ELSE Returns(<<>>)

TextHit(file, line, text) ==
  [file |-> file, line |-> line, column |-> 1, text |-> text, hasText |-> TRUE]

\* how mcpClient.findTextInProject can behave for a registered project
TsBehaviours == {"down", "project", "noImplementation", "flaky"}

findTextInProject(behaviour, pattern) ==
  With((\E i \in 1..Len(structuralPatterns) : structuralPatterns[i] = pattern), LAMBDA isStructural :
  With(ToLower(pattern), LAMBDA low :
    IF behaviour = "down" THEN Fails
    ELSE IF pattern = SemanticPattern
      THEN Returns(<< TextHit(FileA, 3, <<"/","/"," ","T","O","D","O",":"," ","i","m","p","l","e","m","e","n","t"," ","u","s","e","r"," ","a","u","t","h">>),
                      TextHit(FileA, 5, <<"/","/"," ","T","O","D","O">>),
                      TextHit(FileA, 9, <<"/","*"," ","N","O","T","E",":"," ","u","p","d","a","t","e"," ","D","O","C","S"," ","*","/">>) >>)
    ELSE IF isStructural
      THEN (IF behaviour = "noImplementation" THEN Fails
            ELSE IF pattern = structuralPatterns[1]
              THEN Returns(<< TextHit(FileA, 12, <<"r","e","t","u","r","n"," ","f","a","l","s","e",";">>) >>)
            ELSE IF pattern = structuralPatterns[4]
              THEN Returns(<< TextHit(FileA, 14, <<"c","o","n","s","o","l","e",".","l","o","g","(","'","T","O","D","O","'",")">>) >>)
            ELSE Returns(<<>>))
    ELSE IF behaviour = "flaky" THEN Fails
    ELSE IF behaviour = "noImplementation"
      THEN Returns(<< TextHit(FileA, 20, <<"u","s","e","r"," ","n","o","t","e","s">>) >>)
    ELSE IF Includes(low, <<"u","s","e","r">>) \/ Includes(low, <<"a","u","t","h">>)
      THEN Returns(<< TextHit(FileA, 30, <<"e","x","p","o","r","t"," ","f","u","n","c","t","i","o","n"," ","a","u","t","h","U","s","e","r","(",")"," ","{">>) >>)
    ELSE Returns(<<>>)))

\* the project paths of the requests: no directory is at the empty path
\* nor at NoSuchPath; ProjPath is a directory
ProjPath == <<"/","w","o","r","k","/","p","r","o","j">>

NoSuchPath == <<"/","n","o","n","e","x","i","s","t","e","n","t","/","p","a","t","h">>

\* what the markdown files under a project path can hold: the checkbox
\* lines "- [ ] Update docs" and "- [x] Set up database connection" of a
\* README.md without headings
MarkdownBehaviours(projectPath) ==
  IF projectPath = ProjPath THEN {"none", "readme"} ELSE {"none"}

SourceMarkdownCheckbox == <<"m","a","r","k","d","o","w","n","-","c","h","e","c","k","b","o","x">>

MdRecord(n, content, priority, completed, line) ==
  [id |-> [tag |-> <<"md", "checkbox">>, n |-> n],
   content |-> content,
   priority |-> priority,
   category |-> "general",
   source |-> SourceMarkdownCheckbox,
   file |-> <<"R","E","A","D","M","E",".","m","d">>,
   line |-> line,
   completed |-> completed]

\* analyzeMarkdownTodos: the records parseCheckboxTodo makes of those lines
analyzeMarkdownTodos(behaviour, idCounter) ==
  IF behaviour = "readme"
  THEN [todos |-> << MdRecord(idCounter, <<"U","p","d","a","t","e"," ","d","o","c","s">>, "medium", FALSE, 1),
                     MdRecord(idCounter + 1, <<"S","e","t"," ","u","p"," ","d","a","t","a","b","a","s","e"," ","c","o","n","n","e","c","t","i","o","n">>,
                              "low", TRUE, 2) >>,
        idCounter |-> idCounter + 2]
  ELSE [todos |-> <<>>, idCounter |-> idCounter]

(***************************************************************************)
(* The service methods that call the external services.  Each returns the  *)
(* records it made, the idCounter of its service afterwards, whether it    *)
(* threw, and the external calls it issued (calls).                        *)
(***************************************************************************)

\* RepomixService.findTodosInCodebase
findTodosInCodebase(behaviour, idCounter) ==
  With(grepRepomixOutput(behaviour, CodebaseTodoPattern), LAMBDA grepResults :
  With(ParseGrepResults([todos |-> <<>>, idCounter |-> idCounter], grepResults.results), LAMBDA acc :
    IF ~grepResults.ok
    THEN [threw |-> TRUE, todos |-> <<>>, idCounter |-> idCounter,
          calls |-> <<"grepRepomixOutput">>]
    ELSE [threw |-> FALSE, todos |-> acc.todos, idCounter |-> acc.idCounter,
          calls |-> <<"grepRepomixOutput">>]))

\* TreeSitterService.findStructuralTodos: the loop from pattern i on; a
\* failed search makes the method return [] but the ids stay consumed
RECURSIVE StructuralLoop(_, _, _, _)
StructuralLoop(behaviour, acc, i, calls) ==
  IF i > Len(structuralPatterns)
  THEN [todos |-> acc.todos, idCounter |-> acc.idCounter, calls |-> calls]
  ELSE With(findTextInProject(behaviour, structuralPatterns[i]), LAMBDA results :
         IF ~results.ok
         THEN [todos |-> <<>>, idCounter |-> acc.idCounter,
               calls |-> Append(calls, "findTextInProject")]
         ELSE StructuralLoop(behaviour,
                             CreateStructuralTodos(acc, results.results, structuralPatterns[i]),
                             i + 1, Append(calls, "findTextInProject")))

findStructuralTodos(behaviour, idCounter) ==
  StructuralLoop(behaviour, [todos |-> <<>>, idCounter |-> idCounter], 1, <<>>)

\* TreeSitterService.findSemanticTodos
findSemanticTodos(behaviour, idCounter) ==
  With(findTextInProject(behaviour, SemanticPattern), LAMBDA results :
  With(ParseSemanticResults([todos |-> <<>>, idCounter |-> idCounter], results.results), LAMBDA acc :
  With(findStructuralTodos(behaviour, acc.idCounter), LAMBDA structural :
    IF ~results.ok
    THEN [threw |-> TRUE, todos |-> <<>>, idCounter |-> idCounter,
          calls |-> <<"findTextInProject">>]
    ELSE [threw |-> FALSE, todos |-> acc.todos \o structural.todos,
          idCounter |-> structural.idCounter,
          calls |-> <<"findTextInProject">> \o structural.calls])))

\* results.some(...) of checkIfSuperseded: "throw" when result.text is
\* undefined on a result reached before one that satisfies the test
RECURSIVE SomeImplementation(_)
SomeImplementation(results) ==
  IF results = <<>> THEN "false"
  ELSE IF ~Head(results).hasText THEN "throw"
  ELSE IF HasImplementationText(Head(results).text) THEN "true"
  ELSE SomeImplementation(Tail(results))

\* TreeSitterService.checkIfSuperseded: the loop over the search terms; an
\* exception anywhere answers false
RECURSIVE CheckTerms(_, _, _)
CheckTerms(behaviour, terms, calls) ==
  IF terms = <<>> THEN [superseded |-> FALSE, calls |-> calls]
  ELSE With(findTextInProject(behaviour, Head(terms)), LAMBDA results :
       With(Append(calls, "findTextInProject"), LAMBDA called :
       With(SomeImplementation(results.results), LAMBDA found :
         IF ~results.ok \/ found = "throw" THEN [superseded |-> FALSE, calls |-> called]
         ELSE IF found = "true" THEN [superseded |-> TRUE, calls |-> called]
         ELSE CheckTerms(behaviour, Tail(terms), called))))

checkIfSuperseded(behaviour, todo) ==
  CheckTerms(behaviour, extractImplementationTerms(todo.content), <<>>)

\* TreeSitterService.detectSupersededFeatures
detectSupersededFeatures(behaviour, todos) ==
  With(Array([i \in 1..Len(todos) |-> checkIfSuperseded(behaviour, todos[i])]), LAMBDA checked :
  With(SelectSeq(Indices(todos), LAMBDA i : checked[i].superseded), LAMBDA superseded :
    [todos |-> Array([k \in 1..Len(superseded) |->
                        [todos[superseded[k]] EXCEPT !.category = "superseded"]]),
     calls |-> Flatten(Array([i \in 1..Len(todos) |-> checked[i].calls]))]))

\* the re-prioritized list returned whole, without the filter
NotSuperseded_All(todos, supersededTodos) == todos

\* Array.prototype.filter(todo => !supersededIds.has(todo.id))
NotSuperseded(todos, supersededTodos) ==
  SelectSeq(todos, LAMBDA t : ~\E i \in 1..Len(supersededTodos) : supersededTodos[i].id = t.id)

NoTodos == [threw |-> FALSE, todos |-> <<>>, calls |-> <<>>]

\* the object returned by the catch block of analyzeComplete
FallbackResult(context) ==
  With(analyzeTodos(context), LAMBDA contextAnalysis :
    [contextTodos |-> contextAnalysis.todos,
     codebaseTodos |-> <<>>,
     validatedTodos |-> contextAnalysis.todos,
     supersededTodos |-> <<>>,
     summary |-> contextAnalysis.summary])

\* contextTodos taken after the override phase instead of before it
CompleteResult_Reprioritized(contextAnalysis, codebaseTodos, validatedTodos, supersededTodos) ==
  [contextTodos |-> reprioritizeTodos(contextAnalysis.todos),
   codebaseTodos |-> codebaseTodos,
   validatedTodos |-> validatedTodos,
   supersededTodos |-> supersededTodos,
   summary |-> generateSummary(validatedTodos \o supersededTodos)]

\* the summary taken over validatedTodos alone
CompleteResult_ValidatedOnly(contextAnalysis, codebaseTodos, validatedTodos, supersededTodos) ==
  [contextTodos |-> contextAnalysis.todos,
   codebaseTodos |-> codebaseTodos,
   validatedTodos |-> validatedTodos,
   supersededTodos |-> supersededTodos,
   summary |-> generateSummary(validatedTodos)]

\* the object returned by the try block of analyzeComplete
CompleteResult(contextAnalysis, codebaseTodos, validatedTodos, supersededTodos) ==
  [contextTodos |-> contextAnalysis.todos,
   codebaseTodos |-> codebaseTodos,
   validatedTodos |-> validatedTodos,
   supersededTodos |-> supersededTodos,
   summary |-> generateSummary(validatedTodos \o supersededTodos)]

\* Promise.all in the place of Promise.allSettled: one rejection fails both
allSettled_All(env) ==
  [repomixOutputId |-> env.packOk /\ env.registerOk,
   treeSitterProject |-> env.packOk /\ env.registerOk]

\* Promise.allSettled([packProject, registerProject]) of analyzeComplete:
\* which of the two promises is fulfilled
allSettled(env) ==
  [repomixOutputId |-> env.packOk, treeSitterProject |-> env.registerOk]

\* EnhancedTodoAnalyzer.analyzeComplete.  env says how the external
\* services behave during the call, ids holds the idCounter of the three
\* service objects.  Promise.allSettled keeps the two rejections apart and
\* every later call sits in its own try block, so the try block of
\* analyzeComplete itself completes.
analyzeComplete(projectPath, context, env, ids) ==
  With(analyzeTodos(context), LAMBDA contextAnalysis :
  With(allSettled(env), LAMBDA settled :
  With((IF settled.repomixOutputId
        THEN findTodosInCodebase(env.grep, ids.repomix)
        ELSE NoTodos @@ [idCounter |-> ids.repomix]),
        LAMBDA codebase :
  With(analyzeMarkdownTodos(env.md, ids.markdown), LAMBDA markdown :
  With((IF settled.treeSitterProject
        THEN findSemanticTodos(env.ts, ids.treeSitter)
        ELSE NoTodos @@ [idCounter |-> ids.treeSitter]),
        LAMBDA semantic :
  With(contextAnalysis.todos \o codebase.todos \o markdown.todos \o semantic.todos, LAMBDA allTodos :
  With(consolidateDuplicates(allTodos), LAMBDA consolidatedTodos :
  With(reprioritizeTodos(consolidatedTodos), LAMBDA reprioritizedTodos :
  With((IF settled.treeSitterProject
        THEN detectSupersededFeatures(env.ts, reprioritizedTodos)
        ELSE [todos |-> <<>>, calls |-> <<>>]),
        LAMBDA superseded :
  With(NotSuperseded(reprioritizedTodos, superseded.todos), LAMBDA validatedTodos :
    [ids |-> [repomix |-> codebase.idCounter,
              markdown |-> markdown.idCounter,
              treeSitter |-> semantic.idCounter],
     consolidated |-> consolidatedTodos,
     result |-> CompleteResult(contextAnalysis, codebase.todos,
                               validatedTodos, superseded.todos),
     calls |-> <<"packCodebase", "registerTreeSitterProject">>
               \o codebase.calls \o <<"readdir">> \o semantic.calls \o superseded.calls]))))))))))

(***************************************************************************)
(* TodoLifecycleManager: content analysis helpers                          *)
(***************************************************************************)

IsLowerLetter(c) ==
  c \in {"a","b","c","d","e","f","g","h","i","j","k","l","m",
         "n","o","p","q","r","s","t","u","v","w","x","y","z"}

\* the maximal runs of \w characters of s from position k on, each with
\* its start position
WordRuns(s, k) ==
  With(SelectSeq(Indices(s), LAMBDA j :
         j >= k /\ IsWordChar(s[j]) /\ (j = k \/ ~IsWordChar(s[j - 1]))),
       LAMBDA starts :
    Array([i \in 1..Len(starts) |-> [start |-> starts[i], word |-> WordRun(s, starts[i])]]))

\* String.prototype.replace with a string pattern: the first occurrence
ReplaceFirst(s, ch, by) ==
  With({ j \in 1..Len(s) : s[j] = ch }, LAMBDA found :
    IF found = {} THEN s
    ELSE SubSeq(s, 1, Min(found) - 1) \o by \o SubSeq(s, Min(found) + 1, Len(s)))

\* content.match(/\w+\s*\(/g): every word run that white space and then
\* an opening parenthesis follow, with that tail
FunctionCalls(content) ==
  With(WordRuns(content, 1), LAMBDA runs :
  LET End(r) == SkipSpaces(content, r.start + Len(r.word))
  IN  With(SelectSeq(runs, LAMBDA r : End(r) <= Len(content) /\ content[End(r)] = "("), LAMBDA called :
        Array([i \in 1..Len(called) |-> SubSeq(content, called[i].start, End(called[i]))])))

\* content.match(/\b[a-z][A-Za-z0-9_]+\b/g)
Variables(content) ==
  With(WordRuns(content, 1), LAMBDA runs :
  With(SelectSeq(runs, LAMBDA r : IsLowerLetter(r.word[1]) /\ Len(r.word) >= 2), LAMBDA vars :
    Array([i \in 1..Len(vars) |-> vars[i].word])))

FirstN(s, n) == SubSeq(s, 1, IF Len(s) < n THEN Len(s) ELSE n)

\* TodoLifecycleManager.extractCodeReferences; confidence in hundredths
extractCodeReferences(content) ==
  With(FunctionCalls(content), LAMBDA functionCalls :
  With(FirstN(Variables(content), 3), LAMBDA variables :
    Array([i \in 1..Len(functionCalls) |->
             [original |-> functionCalls[i],
              pattern |-> ReplaceFirst(functionCalls[i], "(", <<"\\", "(">>),
              type |-> "function_call",
              confidence |-> 80]])
    \o
    Array([i \in 1..Len(variables) |->
             [original |-> variables[i],
              pattern |-> <<"\\", "b">> \o variables[i] \o <<"\\", "b">>,
              type |-> "variable",
              confidence |-> 60]])))

\* String.prototype.split(/\s+/)
SplitWhitespace(s) == Split(CollapseSpaces(s), " ")

hedgeWords ==
  << <<"s","h","o","u","l","d">>, <<"c","o","u","l","d">>, <<"w","o","u","l","d">>, <<"m","i","g","h","t">>,
     <<"m","a","y","b","e">>, <<"n","e","e","d">>, <<"w","a","n","t">> >>

\* TodoLifecycleManager.extractImplementationKeywords
extractImplementationKeywords(content) ==
  With(SplitWhitespace(ToLower(content)), LAMBDA words :
  With(SelectSeq(words, LAMBDA w : Len(w) > 4
                                   /\ ~\E h \in 1..Len(hedgeWords) : hedgeWords[h] = w),
       LAMBDA significantWords :
    FirstN(significantWords, 3)))

fileExtensions ==
  << <<"t","s">>, <<"j","s">>, <<"p","y">>, <<"m","d">>, <<"j","s","o","n">>, <<"y","a","m","l">>, <<"y","m","l">> >>

IsPathChar(c) == IsWordChar(c) \/ c \in {"/", ".", "-"}

PathRun(s, i) ==
  With({ j \in i..Len(s) : ~IsPathChar(s[j]) }, LAMBDA stops :
    SubSeq(s, i, IF stops = {} THEN Len(s) ELSE Min(stops) - 1))

\* the end of the match of [\w\/.-]+\.(ts|js|py|md|json|yaml|yml) that
\* starts at k: the greedy class gives characters back until a dot and an
\* extension follow, the first extension of the alternation that fits
\* wins; 0 when there is no match at k
FileMatchEnd(s, k) ==
  With(PathRun(s, k), LAMBDA run :
  LET Ext(p) == { e \in 1..Len(fileExtensions) : MatchAt(s, k + p + 1, fileExtensions[e]) }
  IN  With({ p \in 1..(Len(run) - 1) : s[k + p] = "." /\ Ext(p) # {} }, LAMBDA splits :
      With((CHOOSE p \in splits : \A q \in splits : q <= p), LAMBDA best :
      With((CHOOSE e \in Ext(best) : \A f \in Ext(best) : e <= f), LAMBDA ext :
        IF splits = {} THEN 0 ELSE k + best + Len(fileExtensions[ext])))))

\* TodoLifecycleManager.extractFileReferences
RECURSIVE FileMatches(_, _)
FileMatches(s, k) ==
  With({ j \in k..Len(s) : IsPathChar(s[j]) /\ FileMatchEnd(s, j) # 0 }, LAMBDA starts :
  With(FileMatchEnd(s, Min(starts)), LAMBDA end :
    IF starts = {} THEN <<>>
    ELSE <<SubSeq(s, Min(starts), end)>> \o FileMatches(s, end + 1)))

extractFileReferences(content) == FileMatches(content, 1)

\* TodoLifecycleManager.extractFunctionReferences:
\* content.match(/\b[a-z][A-Za-z0-9_]*(?=\()/g)
extractFunctionReferences(content) ==
  With(WordRuns(content, 1), LAMBDA runs :
  LET After(r) == r.start + Len(r.word)
  IN  With(SelectSeq(runs, LAMBDA r : /\ IsLowerLetter(r.word[1])
                                      /\ After(r) <= Len(content)
                                      /\ content[After(r)] = "("),
           LAMBDA funcs :
        Array([i \in 1..Len(funcs) |-> funcs[i].word])))

\* TodoLifecycleManager.normalizeTodoContent
normalizeTodoContent(content) ==
  With(ToLower(content), LAMBDA lower :
  With(Array([i \in 1..Len(lower) |->
                IF IsWordChar(lower[i]) \/ IsSpace(lower[i]) THEN lower[i] ELSE " "]),
       LAMBDA spaced :
    Trim(CollapseSpaces(spaced))))

SeqToSet(s) == { s[i] : i \in 1..Len(s) }

\* TodoLifecycleManager.calculateGroupSimilarity, as the two sizes of the
\* quotient intersection.size / union.size
calculateGroupSimilarity(todos) ==
  IF Len(todos) < 2 THEN [intersection |-> 0, union |-> 1]
  ELSE With(SeqToSet(SplitWhitespace(ToLower(todos[1].content))), LAMBDA words1 :
       With(SeqToSet(SplitWhitespace(ToLower(todos[2].content))), LAMBDA words2 :
         [intersection |-> Cardinality(words1 \cap words2),
          union |-> Cardinality(words1 \cup words2)]))

completionKeywords ==
  << <<"i","m","p","l","e","m","e","n","t","e","d">>, <<"d","o","n","e">>, <<"c","o","m","p","l","e","t","e","d">>,
     <<"f","i","n","i","s","h","e","d">>, <<"r","e","s","o","l","v","e","d">> >>

\* r.text of a search hit when it is joined: undefined joins as ''
TextOrEmpty(r) == IF r.hasText THEN r.text ELSE <<>>

\* TodoLifecycleManager.analyzeForCompletion; confidence in hundredths
analyzeForCompletion(grepResults) ==
  With(ToLower(Join(Array([i \in 1..Len(grepResults) |-> TextOrEmpty(grepResults[i])]), <<" ">>)), LAMBDA contextText :
  With({ k \in 1..Len(completionKeywords) : Includes(contextText, completionKeywords[k]) }, LAMBDA found :
    IF found # {}
    THEN [isCompleted |-> TRUE,
          keyword |-> completionKeywords[CHOOSE k \in found : \A j \in found : k <= j],
          confidence |-> 80]
    ELSE [isCompleted |-> FALSE, keyword |-> <<>>, confidence |-> 0]))

implContexts ==
  << <<"f","u","n","c","t","i","o","n">>, <<"c","l","a","s","s">>, <<"c","o","n","s","t">>,
     <<"l","e","t">>, <<"v","a","r">>, <<"e","x","p","o","r","t">> >>

\* TodoLifecycleManager.analyzeForSupersession: result.text.toLowerCase()
\* throws a TypeError on a hit without text
RECURSIVE analyzeForSupersession(_, _)
analyzeForSupersession(grepResults, keyword) ==
  IF grepResults = <<>> THEN [threw |-> FALSE, isSuperseded |-> FALSE, confidence |-> 0]
  ELSE IF ~Head(grepResults).hasText
    THEN [threw |-> TRUE, isSuperseded |-> FALSE, confidence |-> 0]
  ELSE With(ToLower(Head(grepResults).text), LAMBDA text :
         IF IncludesAny(text, implContexts) /\ Includes(text, keyword)
         THEN [threw |-> FALSE, isSuperseded |-> TRUE, confidence |-> 90]
         ELSE analyzeForSupersession(Tail(grepResults), keyword))

\* TodoLifecycleManager.getAllTodos
getAllTodos(analysis) ==
  analysis.contextTodos \o analysis.codebaseTodos
    \o analysis.validatedTodos \o analysis.supersededTodos

\* TodoLifecycleManager.getTotalTodos
getTotalTodos(analysis) == Len(getAllTodos(analysis))

(***************************************************************************)
(* TodoLifecycleManager: the cleanup analysis.  The report and the list of *)
(* patterns sent to grepRepomixOutput (queries) are threaded through the   *)
(* loops.                                                                  *)
(***************************************************************************)

EmptyReport(totalAnalyzed) ==
  [totalAnalyzed |-> totalAnalyzed,
   staleItems |-> <<>>,
   completedItems |-> <<>>,
   duplicateGroups |-> <<>>,
   supersededItems |-> <<>>,
   brokenReferences |-> <<>>,
   recommendations |-> <<>>,
   cleanupSummary |-> [safeDeletions |-> 0,
                       updateSuggestions |-> 0,
                       consolidationOpportunities |-> 0,
                       totalPotentialReduction |-> 0]]

\* the report and the queries before anything is found
NothingFound == [report |-> EmptyReport(0), queries |-> <<>>]

\* a failed search taken for a search without hits
CheckReference_FailureAsMissing(behaviour, st, todo, ref) ==
  With(grepRepomixOutput(behaviour, ref.pattern), LAMBDA grepResults :
  With(Append(st.queries, ref.pattern), LAMBDA queried :
    IF Len(grepResults.results) = 0
    THEN [st EXCEPT !.queries = queried,
                    !.report.staleItems =
                       Append(@, [todo |-> todo,
                                  reference |-> ref.original,
                                  confidence |-> ref.confidence])]
    ELSE [st EXCEPT !.queries = queried]))

\* the body of the inner loop of detectStaleAndCompleted
CheckReference(behaviour, st, todo, ref) ==
  With(grepRepomixOutput(behaviour, ref.pattern), LAMBDA grepResults :
  With(analyzeForCompletion(grepResults.results), LAMBDA completionResult :
  With(Append(st.queries, ref.pattern), LAMBDA queried :
    IF ~grepResults.ok THEN [st EXCEPT !.queries = queried]
    ELSE IF Len(grepResults.results) = 0
      THEN [st EXCEPT !.queries = queried,
                      !.report.staleItems =
                         Append(@, [todo |-> todo,
                                    reference |-> ref.original,
                                    confidence |-> ref.confidence])]
    ELSE IF completionResult.isCompleted
      THEN [st EXCEPT !.queries = queried,
                      !.report.completedItems =
                         Append(@, [todo |-> todo,
                                    keyword |-> completionResult.keyword,
                                    confidence |-> completionResult.confidence,
                                    evidence |-> FirstN(grepResults.results, 3)])]
    ELSE [st EXCEPT !.queries = queried])))

RECURSIVE CheckReferences(_, _, _, _)
CheckReferences(behaviour, st, todo, refs) ==
  IF refs = <<>> THEN st
  ELSE CheckReferences(behaviour, CheckReference(behaviour, st, todo, Head(refs)),
                       todo, Tail(refs))

\* what a loop over the TODOs has appended to the report and to the
\* queries, given what the body of the loop appends for each TODO: the
\* bodies only append, so the appended items are those of the first TODO,
\* then those of the second, and so on
Appended(st, found) ==
  LET All(Part(_)) == Flatten(Array([i \in 1..Len(found) |-> Part(found[i])]))
  IN  [st EXCEPT
         !.queries = @ \o All(LAMBDA f : f.queries),
         !.report.staleItems = @ \o All(LAMBDA f : f.report.staleItems),
         !.report.completedItems = @ \o All(LAMBDA f : f.report.completedItems),
         !.report.supersededItems = @ \o All(LAMBDA f : f.report.supersededItems),
         !.report.brokenReferences = @ \o All(LAMBDA f : f.report.brokenReferences)]

\* TodoLifecycleManager.detectStaleAndCompleted
detectStaleAndCompleted(behaviour, st, todos) ==
  Appended(st, Array([i \in 1..Len(todos) |->
                        CheckReferences(behaviour, NothingFound, todos[i],
                                        extractCodeReferences(todos[i].content))]))

\* TodoLifecycleManager.detectDuplicates: the groups of the Map in
\* insertion order, kept when similarity > 0.8
detectDuplicates(st, allTodos) ==
  With(Array([i \in 1..Len(allTodos) |-> normalizeTodoContent(allTodos[i].content)]), LAMBDA normalized :
  With(Distinct(normalized), LAMBDA keys :
  LET members(key) == SelectSeq(Indices(allTodos), LAMBDA i : normalized[i] = key)
      Group(key) == Array([m \in 1..Len(members(key)) |-> allTodos[members(key)[m]]])
  IN  With(Array([g \in 1..Len(keys) |->
                    With(Group(keys[g]), LAMBDA group :
                      [normalizedContent |-> keys[g],
                       todos |-> group,
                       similarity |-> calculateGroupSimilarity(group)])]),
           LAMBDA groups :
      With(SelectSeq(groups, LAMBDA g :
              /\ Len(g.todos) > 1
              /\ 10 * g.similarity.intersection > 8 * g.similarity.union),
           LAMBDA kept :
        [st EXCEPT !.report.duplicateGroups = @ \o kept]))))

\* the loop over the keywords of one TODO in detectSuperseded: it stops
\* at the first keyword that shows a supersession; a failed query or a
\* TypeError in analyzeForSupersession is caught and the loop goes on
RECURSIVE CheckKeywords(_, _, _, _)
CheckKeywords(behaviour, st, todo, keywords) ==
  IF keywords = <<>> THEN st
  ELSE With(grepRepomixOutput(behaviour, Head(keywords)), LAMBDA grepResults :
       With(analyzeForSupersession(grepResults.results, Head(keywords)), LAMBDA supersessionResult :
       With([st EXCEPT !.queries = Append(@, Head(keywords))], LAMBDA queried :
         IF grepResults.ok /\ ~supersessionResult.threw /\ supersessionResult.isSuperseded
         THEN [queried EXCEPT !.report.supersededItems =
                  Append(@, [todo |-> todo,
                             keyword |-> Head(keywords),
                             confidence |-> supersessionResult.confidence,
                             implementationEvidence |-> FirstN(grepResults.results, 2),
                             suggestedAction |-> "safe_delete"])]
         ELSE CheckKeywords(behaviour, queried, todo, Tail(keywords)))))

\* TodoLifecycleManager.detectSuperseded
detectSuperseded(behaviour, st, todos) ==
  Appended(st, Array([i \in 1..Len(todos) |->
                        CheckKeywords(behaviour, NothingFound, todos[i],
                                      extractImplementationKeywords(todos[i].content))]))

FilePattern(fileRef) == <<"p","a","t","h","=","\"">> \o fileRef \o <<"\"">>

FunctionPattern(funcRef) ==
  <<"f","u","n","c","t","i","o","n"," ">> \o funcRef \o <<"|","c","o","n","s","t"," ">> \o funcRef
    \o <<"|">> \o funcRef \o <<"\\", "(">>

\* the two inner loops of detectBrokenReferences
RECURSIVE CheckBroken(_, _, _, _, _)
CheckBroken(behaviour, st, todo, refs, referenceType) ==
  IF refs = <<>> THEN st
  ELSE With((IF referenceType = "file" THEN FilePattern(Head(refs))
             ELSE FunctionPattern(Head(refs))),
             LAMBDA pattern :
       With(grepRepomixOutput(behaviour, pattern), LAMBDA grepResults :
       With([st EXCEPT !.queries = Append(@, pattern)], LAMBDA queried :
       With((IF grepResults.ok /\ Len(grepResults.results) = 0
             THEN [queried EXCEPT !.report.brokenReferences =
                     Append(@, [todo |-> todo,
                                referenceType |-> referenceType,
                                brokenReference |-> Head(refs)])]
             ELSE queried),
             LAMBDA next :
         CheckBroken(behaviour, next, todo, Tail(refs), referenceType)))))

\* TodoLifecycleManager.detectBrokenReferences
detectBrokenReferences(behaviour, st, todos) ==
  Appended(st, Array([i \in 1..Len(todos) |->
                        With(CheckBroken(behaviour, NothingFound, todos[i],
                                         extractFileReferences(todos[i].content), "file"),
                             LAMBDA files :
                          CheckBroken(behaviour, files, todos[i],
                                      extractFunctionReferences(todos[i].content), "function"))]))

RECURSIVE SumSeq(_)
SumSeq(s) == IF s = <<>> THEN 0 ELSE Head(s) + SumSeq(Tail(s))

\* TodoLifecycleManager.generateRecommendations.  estimatedTimeSaved is
\* kept in half minutes (2, 1.5 and 3 minutes are 4, 3 and 6), and
\* Math.round rounds a half up.
\* the completed items as well
safeDeletions_Lenient(report) ==
  SelectSeq(report.completedItems, LAMBDA item : item.confidence > 75)
    \o SelectSeq(report.supersededItems, LAMBDA item : item.confidence > 75)

\* const safeDeletions of generateRecommendations
safeDeletions(report) ==
  SelectSeq(report.completedItems, LAMBDA item : item.confidence > 85)
    \o SelectSeq(report.supersededItems, LAMBDA item : item.confidence > 85)

generateRecommendations(report) ==
  With(safeDeletions(report), LAMBDA safe :
  With(SelectSeq(report.duplicateGroups, LAMBDA group : Len(group.todos) > 2), LAMBDA significantDuplicates :
  With(SumSeq(Array([g \in 1..Len(significantDuplicates) |-> Len(significantDuplicates[g].todos) - 1])), LAMBDA totalDuplicates :
  With(SelectSeq(report.staleItems, LAMBDA item : item.confidence > 70), LAMBDA staleItems :
  With((IF Len(safe) > 0
        THEN << [type |-> "safe_deletion", priority |-> "high",
                 items |-> Array([i \in 1..Len(safe) |-> safe[i].todo]),
                 estimatedTimeSaved |-> Len(safe) * 4] >>
        ELSE <<>>)
       \o
       (IF Len(significantDuplicates) > 0
        THEN << [type |-> "consolidation", priority |-> "medium",
                 items |-> Flatten(Array([g \in 1..Len(significantDuplicates) |->
                                            Tail(significantDuplicates[g].todos)])),
                 estimatedTimeSaved |-> totalDuplicates * 3] >>
        ELSE <<>>)
       \o
       (IF Len(staleItems) > 0
        THEN << [type |-> "update_references", priority |-> "medium",
                 items |-> Array([i \in 1..Len(staleItems) |-> staleItems[i].todo]),
                 estimatedTimeSaved |-> Len(staleItems) * 6] >>
        ELSE <<>>),
       LAMBDA recs :
  With(report.recommendations \o recs, LAMBDA allRecs :
    [report EXCEPT
       !.recommendations = allRecs,
       !.cleanupSummary =
          [safeDeletions |-> Len(safe),
           updateSuggestions |-> Len(staleItems) + Len(report.brokenReferences),
           consolidationOpportunities |-> Len(significantDuplicates),
           totalPotentialReduction |->
             (SumSeq(Array([r \in 1..Len(allRecs) |-> allRecs[r].estimatedTimeSaved])) + 1) \div 2]]))))))

\* how the call of the packing tool fails when it fails: global.mcpCall is
\* absent or returns nothing, it rejects with an Error, or it rejects with
\* a value that is no Error
PackFailures == {"returnedNull", "rejected", "rejectedValue"}

\* what the catch block of mcpClient.packCodebase receives
McpCallError(failure) ==
  IF failure = "returnedNull"
  THEN [isError |-> TRUE,
        \* "MCP call failed: mcp__repomix__pack_codebase returned null"
        message |-> <<"M","C","P"," ","c","a","l","l"," ","f","a","i","l","e","d",":"," ","m","c","p","_","_","r","e","p","o","m","i","x","_","_","p","a","c","k","_","c","o","d","e","b","a","s","e"," ","r","e","t","u","r","n","e","d"," ","n","u","l","l">>]
  ELSE IF failure = "rejected"
  THEN [isError |-> TRUE,
        \* "MCP connection failed"
        message |-> <<"M","C","P"," ","c","o","n","n","e","c","t","i","o","n"," ","f","a","i","l","e","d">>]
  ELSE [isError |-> FALSE, message |-> <<>>]

\* error instanceof Error ? error.message : 'Unknown error'
ErrorMessage(error) ==
  IF error.isError THEN error.message
  ELSE <<"U","n","k","n","o","w","n"," ","e","r","r","o","r">>

\* the Error mcpClient.packCodebase throws: "Failed to pack codebase: " and
\* the message of what it caught
PackCodebaseError(failure) ==
  [isError |-> TRUE,
   message |-> <<"F","a","i","l","e","d"," ","t","o"," ","p","a","c","k"," ","c","o","d","e","b","a","s","e",":"," ">>
               \o ErrorMessage(McpCallError(failure))]

\* the message without the caught error's message
CleanupFailed_Bare(error) ==
  <<"T","O","D","O"," ","c","l","e","a","n","u","p"," ","a","n","a","l","y","s","i","s"," ","f","a","i","l","e","d">>

\* the message of the Error analyzeForCleanup throws:
\* "TODO cleanup analysis failed: " and the message of what it caught
CleanupFailed(error) ==
  <<"T","O","D","O"," ","c","l","e","a","n","u","p"," ","a","n","a","l","y","s","i","s"," ","f","a","i","l","e","d",":"," ">>
    \o ErrorMessage(error)

\* TodoLifecycleManager.analyzeForCleanup: packing fails and the method
\* rejects with "TODO cleanup analysis failed: ...", or the four
\* detections run on the packed output and the report is returned
analyzeForCleanup(analysis, env) ==
  With(getAllTodos(analysis), LAMBDA allTodos :
  With([report |-> EmptyReport(getTotalTodos(analysis)), queries |-> <<>>], LAMBDA st0 :
  With(detectStaleAndCompleted(env.grep, st0, allTodos), LAMBDA st1 :
  With(detectDuplicates(st1, allTodos), LAMBDA st2 :
  With(detectSuperseded(env.grep, st2, allTodos), LAMBDA st3 :
  With(detectBrokenReferences(env.grep, st3, allTodos), LAMBDA st4 :
    IF ~env.cleanupPackOk
    THEN [threw |-> TRUE, error |-> CleanupFailed(PackCodebaseError(env.packFailure)),
          calls |-> <<"packCodebase">>, queries |-> <<>>]
    ELSE [threw |-> FALSE, report |-> generateRecommendations(st4.report),
          calls |-> <<"packCodebase">>, queries |-> st4.queries,
          keywordQueries |-> SubSeq(st3.queries, Len(st2.queries) + 1, Len(st3.queries))]))))))

(***************************************************************************)
(* The server (createServer): one EnhancedTodoAnalyzer and one             *)
(* TodoLifecycleManager serve every tools/call request.                    *)
(***************************************************************************)

\* "TODO: Fix auth bug\nFIXME: Optimize database queries\nSecurity issue: validate input properly"
CtxSecurity ==
  <<"T","O","D","O",":"," ","F","i","x"," ","a","u","t","h"," ","b","u","g","\n","F","I","X","M","E",":"," ","O","p","t","i","m","i","z","e"," ","d","a","t","a","b","a","s","e"," ","q","u","e","r","i","e","s","\n","S","e","c","u","r","i","t","y"," ","i","s","s","u","e",":"," ","v","a","l","i","d","a","t","e"," ","i","n","p","u","t"," ","p","r","o","p","e","r","l","y">>

\* "TODO: update docs"
CtxDocs == <<"T","O","D","O",":"," ","u","p","d","a","t","e"," ","d","o","c","s">>

\* "TODO: write tests\nNOTE: tests write"
CtxTests == <<"T","O","D","O",":"," ","w","r","i","t","e"," ","t","e","s","t","s","\n","N","O","T","E",":"," ","t","e","s","t","s"," ","w","r","i","t","e">>

\* "TODO: Add user authentication"
CtxAuth == <<"T","O","D","O",":"," ","A","d","d"," ","u","s","e","r"," ","a","u","t","h","e","n","t","i","c","a","t","i","o","n">>

\* the context argument of a request: absent, empty, or a text
ContextArgs ==
  {[present |-> FALSE, value |-> <<>>]}
    \cup { [present |-> TRUE, value |-> v] : v \in {<<>>, CtxSecurity, CtxDocs, CtxTests, CtxAuth} }

\* the projectPath argument of a request
ProjectPathArgs ==
  {[present |-> FALSE, value |-> <<>>]}
    \cup { [present |-> TRUE, value |-> v] : v \in {<<>>, NoSuchPath, ProjPath} }

\* !x for a string argument: undefined and '' are falsy
Falsy(arg) == ~arg.present \/ arg.value = <<>>

\* the behaviours of the environment during one request; a service that
\* is never reached has the behaviour "down"
Envs(projectPath, withCleanup) ==
  { e \in [packOk : BOOLEAN, grep : GrepBehaviours,
           registerOk : BOOLEAN, ts : TsBehaviours,
           md : MarkdownBehaviours(projectPath),
           cleanupPackOk : BOOLEAN, packFailure : {"returnedNull"}] :
      /\ (e.packOk \/ e.cleanupPackOk \/ e.grep = "down")
      /\ (e.registerOk \/ e.ts = "down")
      /\ (withCleanup \/ ~e.cleanupPackOk) }

NoEnv == [packOk |-> FALSE, grep |-> "down", registerOk |-> FALSE, ts |-> "down",
          md |-> "none", cleanupPackOk |-> FALSE, packFailure |-> "returnedNull"]

\* the server accepts requests while the three services together have
\* handed out at most this many ids
MaxIdsUsed == 2

VARIABLES
  ids,        \* the idCounter fields of RepomixService, MarkdownTodoParser, TreeSitterService
  request,    \* the tools/call request being answered: tool name and arguments
  env,        \* how the external services behaved during it
  response,   \* what the handler returned or threw
  calls       \* the external calls the handler issued, in order

vars == <<ids, request, env, response, calls>>

NoArg == [present |-> FALSE, value |-> <<>>]

NoRequest == [name |-> "none", context |-> NoArg, projectPath |-> NoArg]

NoResponse == [kind |-> "none"]

Init ==
  /\ ids = [repomix |-> 1, markdown |-> 1, treeSitter |-> 1]
  /\ request = NoRequest
  /\ env = NoEnv
  /\ response = NoResponse
  /\ calls = <<>>

IdsUsed == (ids.repomix - 1) + (ids.markdown - 1) + (ids.treeSitter - 1)

\* the server is idle and takes the next request
Accepting ==
  /\ request = NoRequest
  /\ IdsUsed <= MaxIdsUsed

\* the projectPath check made before the context check
Reject_ProjectPathFirst(name, context, projectPath, message) ==
  /\ request' = [name |-> name, context |-> context, projectPath |-> projectPath]
  /\ env' = NoEnv
  /\ response' = [kind |-> "error",
                  message |-> IF name \in {"analyze-codebase-todos", "cleanup-todos"}
                                 /\ Falsy(projectPath)
                              THEN "projectPath is required"
                              ELSE message]
  /\ calls' = <<>>
  /\ UNCHANGED ids

\* the handler throws before anything else is done
Reject(name, context, projectPath, message) ==
  /\ request' = [name |-> name, context |-> context, projectPath |-> projectPath]
  /\ env' = NoEnv
  /\ response' = [kind |-> "error", message |-> message]
  /\ calls' = <<>>
  /\ UNCHANGED ids

\* the 'todos' branch of the CallToolRequestSchema handler
CallTodos ==
  /\ Accepting
  /\ \E context \in ContextArgs :
       IF Falsy(context)
       THEN Reject("todos", context, NoArg, "Context is required for TODO analysis")
       ELSE \E e \in Envs(<<>>, FALSE) :
              \E run \in {analyzeComplete(<<>>, context.value, e, ids)} :
                  /\ request' = [name |-> "todos", context |-> context,
                                 projectPath |-> NoArg]
                  /\ env' = e
                  /\ response' = [kind |-> "result",
                                  todos |-> run.result.contextTodos,
                                  summary |-> run.result.summary,
                                  analysis |-> run.result]
                  /\ calls' = run.calls
                  /\ ids' = run.ids

\* the 'analyze-codebase-todos' branch
CallAnalyzeCodebaseTodos ==
  /\ Accepting
  /\ \E context \in ContextArgs, projectPath \in ProjectPathArgs :
       IF Falsy(context)
       THEN Reject("analyze-codebase-todos", context, projectPath,
                   "Context is required for TODO analysis")
       ELSE IF Falsy(projectPath)
       THEN Reject("analyze-codebase-todos", context, projectPath,
                   "projectPath is required for codebase analysis")
       ELSE \E e \in Envs(projectPath.value, FALSE) :
              \E run \in {analyzeComplete(projectPath.value, context.value, e, ids)} :
                  /\ request' = [name |-> "analyze-codebase-todos", context |-> context,
                                 projectPath |-> projectPath]
                  /\ env' = e
                  /\ response' = [kind |-> "result", analysis |-> run.result]
                  /\ calls' = run.calls
                  /\ ids' = run.ids

\* the 'cleanup-todos' branch: a rejection of analyzeForCleanup is not
\* caught by the handler
CallCleanupTodos ==
  /\ Accepting
  /\ \E context \in ContextArgs, projectPath \in ProjectPathArgs :
       IF Falsy(context)
       THEN Reject("cleanup-todos", context, projectPath,
                   "Context is required for TODO cleanup analysis")
       ELSE IF Falsy(projectPath)
       THEN Reject("cleanup-todos", context, projectPath,
                   "projectPath is required for TODO cleanup analysis")
       ELSE \E e \in Envs(projectPath.value, TRUE) :
              \E run \in {analyzeComplete(projectPath.value, context.value, e, ids)} :
              \E cleanup \in {analyzeForCleanup(run.result, e)} :
                  /\ ids' = run.ids
                  /\ request' = [name |-> "cleanup-todos", context |-> context,
                                 projectPath |-> projectPath]
                  /\ env' = e
                  /\ response' = IF cleanup.threw
                                 THEN [kind |-> "error", message |-> cleanup.error,
                                       queries |-> cleanup.queries]
                                 ELSE [kind |-> "result",
                                       analysis |-> run.result,
                                       cleanupReport |-> cleanup.report,
                                       queries |-> cleanup.queries,
                                       keywordQueries |-> cleanup.keywordQueries]
                  /\ calls' = run.calls \o cleanup.calls

\* any other tool name
CallUnknownTool ==
  /\ Accepting
  /\ \E context \in ContextArgs, projectPath \in ProjectPathArgs :
       Reject("unknown", context, projectPath, "Unknown tool")

\* the result or the error goes back to the client, and the server is
\* idle again; the service objects keep their idCounter
SendResponse ==
  /\ request # NoRequest
  /\ request' = NoRequest
  /\ env' = NoEnv
  /\ response' = NoResponse
  /\ calls' = <<>>
  /\ UNCHANGED ids

Next ==
  \/ CallTodos
  \/ CallAnalyzeCodebaseTodos
  \/ CallCleanupTodos
  \/ CallUnknownTool
  \/ SendResponse

Spec == Init /\ [][Next]_vars

(***************************************************************************)
(* Properties of the server                                                *)
(***************************************************************************)

\* the request being answered got a result, not an error
Answered == response.kind = "result"

\* validatedTodos followed by supersededTodos of an analysis
Kept(analysis) == analysis.validatedTodos \o analysis.supersededTodos

\* C1: when packing, registration and every search fail and no markdown
\* file is read, analyzeComplete returns with codebaseTodos empty,
\* supersededTodos empty and validatedTodos equal to contextTodos.
C1_FallbackToContext ==
  (Answered /\ ~env.packOk /\ ~env.registerOk /\ env.md = "none") =>
    /\ response.analysis.codebaseTodos = <<>>
    /\ response.analysis.supersededTodos = <<>>
    /\ response.analysis.validatedTodos = response.analysis.contextTodos

\* a record of the analysis stands for the found record s: same
\* consolidation key, and the source of s among its sources
StandsFor(analysis, s) ==
  \E i \in 1..Len(Kept(analysis)) :
    /\ normalizeForConsolidation(Kept(analysis)[i].content)
         = normalizeForConsolidation(s.content)
    /\ Includes(Kept(analysis)[i].source, s.source)

\* semantic discovery and superseded detection ran in the step: the search
\* was issued, every record it found is in the analysis, and the analysis
\* is split by checkIfSuperseded
SemanticPhasesRan ==
  LET analysis == response'.analysis
      found == findSemanticTodos(env'.ts, ids.treeSitter).todos
  IN  /\ \E i \in 1..Len(calls') : calls'[i] = "findTextInProject"
      /\ \A i \in 1..Len(found) : StandsFor(analysis, found[i])
      /\ \A i \in 1..Len(analysis.validatedTodos) :
           ~checkIfSuperseded(env'.ts, analysis.validatedTodos[i]).superseded
      /\ \A i \in 1..Len(analysis.supersededTodos) :
           checkIfSuperseded(env'.ts, analysis.supersededTodos[i]).superseded

\* a request that passes the argument checks of analyzeComplete's callers
ReachesAnalyzeComplete(req) ==
  /\ req.name \in {"todos", "analyze-codebase-todos"}
  /\ ~Falsy(req.context)
  /\ req.name = "analyze-codebase-todos" => ~Falsy(req.projectPath)

C2_Step ==
  /\ (ReachesAnalyzeComplete(request') /\ env'.packOk # env'.registerOk)
       => response'.kind = "result"
  /\ (response'.kind = "result" /\ ~env'.packOk /\ env'.registerOk) =>
       /\ response'.analysis.codebaseTodos = <<>>
       /\ SemanticPhasesRan
  /\ (response'.kind = "result" /\ env'.packOk /\ ~env'.registerOk) =>
       /\ response'.analysis.codebaseTodos
            = findTodosInCodebase(env'.grep, ids.repomix).todos
       /\ response'.analysis.supersededTodos = <<>>

\* C2: a packing failure and a registration failure are isolated from
\* each other.  When packing fails and registration succeeds, semantic
\* discovery and superseded detection still run and codebaseTodos is
\* empty; when registration fails and packing succeeds, the codebase
\* TODOs found are returned and supersededTodos is empty; in neither
\* case does analyzeComplete throw.
C2_FailuresIsolated == [][C2_Step]_vars

\* packing failed, registration succeeded, and the analysis holds a
\* semantic record that was found to be superseded
C2_Witness ==
  /\ Answered /\ ~env.packOk /\ env.registerOk
  /\ \E i \in 1..Len(response.analysis.supersededTodos) :
       Includes(response.analysis.supersededTodos[i].source, SourceSemantic)

\* C3: the contextTodos returned by analyzeComplete is the list that
\* analyzeTodos(context) returns, whatever the outcome of packing,
\* registration and search, and whatever the later phases did.
C3_ContextTodosUntouched ==
  Answered =>
    response.analysis.contextTodos = analyzeTodos(request.context.value).todos

\* every service answered, and consolidation and the overrides left
\* validatedTodos different from contextTodos
C3_Witness ==
  /\ Answered /\ env.packOk /\ env.registerOk /\ env.grep = "code" /\ env.ts = "project"
  /\ response.analysis.contextTodos # <<>>
  /\ response.analysis.validatedTodos # response.analysis.contextTodos
  /\ \E i \in 1..Len(response.analysis.contextTodos) :
       response.analysis.contextTodos[i].priority
         # enhancedPriorityAnalysis(response.analysis.contextTodos[i])

\* C4: in cleanup-todos a failure to pack the codebase never reaches the
\* caller: the caller receives a result whose cleanup report finds
\* nothing, and no error.
C4_PackFailureIsNoOp ==
  (/\ request.name = "cleanup-todos"
   /\ ~Falsy(request.context) /\ ~Falsy(request.projectPath)
   /\ ~env.cleanupPackOk) =>
    /\ response.kind = "result"
    /\ response.cleanupReport.staleItems = <<>>
    /\ response.cleanupReport.completedItems = <<>>
    /\ response.cleanupReport.supersededItems = <<>>
    /\ response.cleanupReport.brokenReferences = <<>>
    /\ response.cleanupReport.recommendations = <<>>

\* the error a tool throws for a missing context
ContextRequired(name) ==
  IF name = "cleanup-todos" THEN "Context is required for TODO cleanup analysis"
  ELSE "Context is required for TODO analysis"

\* the error a tool throws for a missing projectPath
ProjectPathRequired(name) ==
  IF name = "cleanup-todos" THEN "projectPath is required for TODO cleanup analysis"
  ELSE "projectPath is required for codebase analysis"

\* the handler threw this message and did nothing else: no external call,
\* and nothing of a result in what the caller receives
FailedImmediately(message) ==
  /\ response = [kind |-> "error", message |-> message]
  /\ calls = <<>>
  /\ env = NoEnv

\* C5: todos, analyze-codebase-todos and cleanup-todos fail immediately,
\* before any extraction or external call and without a partial result,
\* when context is missing or empty; the latter two also when projectPath
\* is missing or empty; when both are missing the error is the one about
\* context.
C5_RequiredArguments ==
  /\ (request.name \in {"todos", "analyze-codebase-todos", "cleanup-todos"}
      /\ (~request.context.present \/ request.context.value = <<>>))
       => FailedImmediately(ContextRequired(request.name))
  /\ (request.name \in {"analyze-codebase-todos", "cleanup-todos"}
      /\ request.context.present /\ request.context.value # <<>>
      /\ (~request.projectPath.present \/ request.projectPath.value = <<>>))
       => FailedImmediately(ProjectPathRequired(request.name))

\* cleanup-todos called with neither argument: the error is about context
C5_Witness ==
  /\ request.name = "cleanup-todos"
  /\ ~request.context.present /\ ~request.projectPath.present
  /\ response.kind = "error"
  /\ response.message = "Context is required for TODO cleanup analysis"

\* the content holds a security word or a critical-business word
IsSecurityOrCritical(content) ==
  isSecurityRelated(ToLower(content)) \/ isCriticalBusinessLogic(ToLower(content))

\* C6: the records that todos returns have had the security/critical
\* override applied: every returned record whose content holds a security
\* or critical-business word has priority high, and for the text "TODO:
\* Fix auth bug / FIXME: Optimize database queries / Security issue:
\* validate input properly" a returned record holding "validate input" has
\* priority high.
C6_TodosOverridden ==
  (request.name = "todos" /\ Answered) =>
    /\ \A i \in 1..Len(response.todos) :
         IsSecurityOrCritical(response.todos[i].content)
           => response.todos[i].priority = "high"
    /\ request.context.value = CtxSecurity =>
         \E i \in 1..Len(response.todos) :
           /\ Includes(ToLower(response.todos[i].content),
                       <<"v","a","l","i","d","a","t","e"," ","i","n","p","u","t">>)
           /\ response.todos[i].priority = "high"

(***************************************************************************)
(* consolidateDuplicates and reprioritizeTodos called on their own, as the *)
(* unit tests call them, on lists of records with distinct ids.  request   *)
(* holds the method and its argument, response what it returned.           *)
(***************************************************************************)

\* "implement user authentication" (context)
AuthContext ==
  [id |-> [tag |-> <<"context">>, n |-> 1],
   content |-> <<"i","m","p","l","e","m","e","n","t"," ","u","s","e","r"," ","a","u","t","h","e","n","t","i","c","a","t","i","o","n">>,
   priority |-> "medium", category |-> "feature",
   source |-> <<"c","o","n","t","e","x","t">>]

\* "implement user auth" (codebase)
AuthCodebase ==
  [id |-> [tag |-> <<"codebase">>, n |-> 2],
   content |-> <<"i","m","p","l","e","m","e","n","t"," ","u","s","e","r"," ","a","u","t","h">>,
   priority |-> "high", category |-> "feature",
   source |-> <<"c","o","d","e","b","a","s","e">>]

\* "add user authentication feature" (semantic)
AuthSemantic ==
  [id |-> [tag |-> <<"semantic">>, n |-> 3],
   content |-> <<"a","d","d"," ","u","s","e","r"," ","a","u","t","h","e","n","t","i","c","a","t","i","o","n"," ","f","e","a","t","u","r","e">>,
   priority |-> "medium", category |-> "feature",
   source |-> <<"s","e","m","a","n","t","i","c">>]

\* "Implement user authentication!" (codebase)
AuthShouted ==
  [id |-> [tag |-> <<"codebase">>, n |-> 4],
   content |-> <<"I","m","p","l","e","m","e","n","t"," ","u","s","e","r"," ","a","u","t","h","e","n","t","i","c","a","t","i","o","n","!">>,
   priority |-> "high", category |-> "feature",
   source |-> <<"c","o","d","e","b","a","s","e">>]

\* "authentication user implement" (semantic)
AuthReordered ==
  [id |-> [tag |-> <<"semantic">>, n |-> 5],
   content |-> <<"a","u","t","h","e","n","t","i","c","a","t","i","o","n"," ","u","s","e","r"," ","i","m","p","l","e","m","e","n","t">>,
   priority |-> "low", category |-> "feature",
   source |-> <<"s","e","m","a","n","t","i","c">>]

\* "nice to have feature" (context)
NiceToHave ==
  [id |-> [tag |-> <<"context">>, n |-> 6],
   content |-> <<"n","i","c","e"," ","t","o"," ","h","a","v","e"," ","f","e","a","t","u","r","e">>,
   priority |-> "high", category |-> "feature",
   source |-> <<"c","o","n","t","e","x","t">>]

\* "optional token refresh" (context)
OptionalToken ==
  [id |-> [tag |-> <<"context">>, n |-> 7],
   content |-> <<"o","p","t","i","o","n","a","l"," ","t","o","k","e","n"," ","r","e","f","r","e","s","h">>,
   priority |-> "low", category |-> "feature",
   source |-> <<"c","o","n","t","e","x","t">>]

\* "maybe fix crash" (codebase)
CrashInCode ==
  [id |-> [tag |-> <<"codebase">>, n |-> 8],
   content |-> <<"m","a","y","b","e"," ","f","i","x"," ","c","r","a","s","h">>,
   priority |-> "low", category |-> "bug-fix",
   source |-> <<"c","o","d","e","b","a","s","e">>]

\* "write docs" (context)
WriteDocs ==
  [id |-> [tag |-> <<"context">>, n |-> 10],
   content |-> <<"w","r","i","t","e"," ","d","o","c","s">>,
   priority |-> "high", category |-> "documentation",
   source |-> <<"c","o","n","t","e","x","t">>]

\* "Write docs" (codebase)
DocsInCode ==
  [id |-> [tag |-> <<"codebase">>, n |-> 11],
   content |-> <<"W","r","i","t","e"," ","d","o","c","s">>,
   priority |-> "low", category |-> "bug-fix",
   source |-> <<"c","o","d","e","b","a","s","e">>]

\* "critical bug in payment system" (semantic)
PaymentBug ==
  [id |-> [tag |-> <<"semantic">>, n |-> 12],
   content |-> <<"c","r","i","t","i","c","a","l"," ","b","u","g"," ","i","n"," ","p","a","y","m","e","n","t"," ","s","y","s","t","e","m">>,
   priority |-> "medium", category |-> "bug-fix",
   source |-> <<"s","e","m","a","n","t","i","c">>]

\* "write docs!" (context)
DocsAgain ==
  [id |-> [tag |-> <<"context">>, n |-> 13],
   content |-> <<"w","r","i","t","e"," ","d","o","c","s","!">>,
   priority |-> "medium", category |-> "documentation",
   source |-> <<"c","o","n","t","e","x","t">>]

TodoPool ==
  << AuthContext,
     AuthCodebase,
     AuthSemantic,
     AuthShouted,
     AuthReordered,
     NiceToHave,
     OptionalToken,
     CrashInCode,
     WriteDocs,
     DocsInCode,
     PaymentBug,
     DocsAgain >>

\* the longest list of records handed to a method
MaxTodos == 3

\* the lists of at most MaxTodos different records of the pool
TodoLists ==
  LET picks == UNION { [1..n -> 1..Len(TodoPool)] : n \in 0..MaxTodos }
      different == { s \in picks : \A i, j \in 1..Len(s) : i # j => s[i] # s[j] }
  IN  { Array([i \in 1..Len(s) |-> TodoPool[s[i]]]) : s \in different }

InitConsolidate ==
  /\ ids = [repomix |-> 1, markdown |-> 1, treeSitter |-> 1]
  /\ env = NoEnv
  /\ calls = <<>>
  /\ response = NoResponse
  /\ request \in { [name |-> "none", todos |-> todos] : todos \in TodoLists }

\* consolidateDuplicates(todos)
CallConsolidateDuplicates ==
  /\ request.name = "none"
  /\ request' = [request EXCEPT !.name = "consolidateDuplicates"]
  /\ response' = [kind |-> "result", todos |-> consolidateDuplicates(request.todos)]
  /\ UNCHANGED <<ids, env, calls>>

\* reprioritizeTodos(todos)
CallReprioritizeTodos ==
  /\ request.name = "none"
  /\ request' = [request EXCEPT !.name = "reprioritizeTodos"]
  /\ response' = [kind |-> "result", todos |-> reprioritizeTodos(request.todos)]
  /\ UNCHANGED <<ids, env, calls>>

\* reprioritizeTodos(consolidatedTodos), as analyzeComplete goes on
CallReprioritizeConsolidated ==
  /\ request.name = "consolidateDuplicates"
  /\ request' = [name |-> "reprioritizeTodos", todos |-> response.todos]
  /\ response' = [kind |-> "result", todos |-> reprioritizeTodos(response.todos)]
  /\ UNCHANGED <<ids, env, calls>>

NextConsolidate ==
  \/ CallConsolidateDuplicates
  \/ CallReprioritizeTodos
  \/ CallReprioritizeConsolidated

SpecConsolidate == InitConsolidate /\ [][NextConsolidate]_vars

(***************************************************************************)
(* Properties of consolidateDuplicates and reprioritizeTodos               *)
(***************************************************************************)

\* consolidateDuplicates has returned
Consolidated == request.name = "consolidateDuplicates" /\ response.kind = "result"

\* reprioritizeTodos has returned
Reprioritized == request.name = "reprioritizeTodos" /\ response.kind = "result"

PriorityRank(p) == CASE p = "high" -> 3 [] p = "medium" -> 2 [] p = "low" -> 1

\* the highest of the priorities of the records of a list
MaxPriority(todos) ==
  CHOOSE p \in {"high", "medium", "low"} :
    /\ \E i \in 1..Len(todos) : todos[i].priority = p
    /\ \A i \in 1..Len(todos) : PriorityRank(todos[i].priority) <= PriorityRank(p)

\* the elements of a list, whatever their order
Elems(todos) == { todos[i] : i \in 1..Len(todos) }

\* the sources of the records of a list joined by "+", in the order of
\* the list
SourcesInOrder(todos) ==
  Join(Array([i \in 1..Len(todos) |-> todos[i].source]), <<"+">>)

ContextCodebaseSemantic ==
  <<"c","o","n","t","e","x","t","+","c","o","d","e","b","a","s","e","+","s","e","m","a","n","t","i","c">>

\* the three records of the example, whose words differ
ExampleTriple == <<AuthContext, AuthCodebase, AuthSemantic>>

\* three records whose contents differ in case, punctuation and word
\* order only
SameWordsTriple == <<AuthContext, AuthShouted, AuthReordered>>

\* C7 as stated: "implement user authentication" (context), "implement
\* user auth" (codebase) and "add user authentication feature" (semantic)
\* are merged into one record with source context+codebase+semantic and
\* the highest of the three priorities.
C7_ExampleMerged ==
  (Consolidated /\ request.todos = ExampleTriple) =>
    /\ Len(response.todos) = 1
    /\ response.todos[1].source = ContextCodebaseSemantic
    /\ response.todos[1].priority = MaxPriority(ExampleTriple)

\* C7 amended: three records from context, codebase and semantic whose
\* contents differ in case, punctuation and word order only are merged
\* into one record, whose source joins the three sources by "+" in their
\* order of appearance (context+codebase+semantic for that order) and
\* whose priority is the highest of the three; the three records of the
\* example have different words and come out as they went in.
C7_SameWordsMerged ==
  Consolidated =>
    /\ (Len(request.todos) = 3 /\ Elems(request.todos) = Elems(SameWordsTriple)) =>
         /\ Len(response.todos) = 1
         /\ response.todos[1].source = SourcesInOrder(request.todos)
         /\ response.todos[1].priority = MaxPriority(request.todos)
         /\ response.todos[1].content = request.todos[1].content
    /\ request.todos = SameWordsTriple =>
         response.todos[1].source = ContextCodebaseSemantic
    /\ request.todos = ExampleTriple => response.todos = ExampleTriple

\* the three same-words records went in in the order context, codebase,
\* semantic and one record came out
C7_Witness ==
  /\ Consolidated
  /\ request.todos = SameWordsTriple
  /\ Len(response.todos) = 1

\* the key consolidateDuplicates groups a record by
KeyOf(todo) == normalizeForConsolidation(todo.content)

\* the keys of the records of a list
KeysOf(todos) == Array([i \in 1..Len(todos) |-> KeyOf(todos[i])])

\* C8: consolidation loses no record: the output has at most as many
\* records as the input, it holds exactly one record for each distinct
\* normalized key of the input, and the source of that record contains
\* the source of every input record with the key.
C8_NoRecordLost ==
  Consolidated =>
    \A inKeys \in {KeysOf(request.todos)}, outKeys \in {KeysOf(response.todos)} :
      /\ Len(response.todos) <= Len(request.todos)
      /\ \A i, j \in 1..Len(outKeys) : outKeys[i] = outKeys[j] => i = j
      /\ Elems(outKeys) = Elems(inKeys)
      /\ \A i \in 1..Len(inKeys) :
           \E j \in 1..Len(outKeys) :
             /\ outKeys[j] = inKeys[i]
             /\ Includes(response.todos[j].source, request.todos[i].source)

\* records of two sources were merged and another record was left alone
C8_Witness ==
  /\ Consolidated
  /\ Len(response.todos) = 2 /\ Len(request.todos) = 3
  /\ \E j \in 1..2 : Includes(response.todos[j].source, <<"+">>)

\* the content holds no word of the three override vocabularies
NoVocabulary(todo) ==
  /\ ~isSecurityRelated(ToLower(todo.content))
  /\ ~isCriticalBusinessLogic(ToLower(todo.content))
  /\ ~isNiceToHave(ToLower(todo.content))

\* a bug fix found in the codebase
BugFixInCodebase(todo) ==
  todo.category = "bug-fix" /\ Includes(todo.source, <<"c","o","d","e","b","a","s","e">>)

\* C9 as stated: reprioritizeTodos never lowers the priority of a record,
\* and a record that matches no override vocabulary keeps its priority.
C9_NeverLowered ==
  Reprioritized =>
    \A i \in 1..Len(request.todos) :
      /\ PriorityRank(response.todos[i].priority) >= PriorityRank(request.todos[i].priority)
      /\ NoVocabulary(request.todos[i])
           => response.todos[i].priority = request.todos[i].priority

\* C9 amended: reprioritizeTodos lowers the priority of a record only to
\* low, and only of a record with a nice-to-have word that has no security
\* or critical-business word and is no bug fix from the codebase; a record
\* that matches no override vocabulary and is no bug fix from the codebase
\* keeps its priority.
C9_LoweredOnlyByNiceToHave ==
  Reprioritized =>
    \A i \in 1..Len(request.todos) :
      /\ PriorityRank(response.todos[i].priority) < PriorityRank(request.todos[i].priority) =>
           /\ response.todos[i].priority = "low"
           /\ isNiceToHave(ToLower(request.todos[i].content))
           /\ ~isSecurityRelated(ToLower(request.todos[i].content))
           /\ ~isCriticalBusinessLogic(ToLower(request.todos[i].content))
           /\ ~BugFixInCodebase(request.todos[i])
      /\ (NoVocabulary(request.todos[i]) /\ ~BugFixInCodebase(request.todos[i]))
           => response.todos[i].priority = request.todos[i].priority

\* one record was lowered and another, of high priority, matched no rule
\* and kept it
C9_Witness ==
  /\ Reprioritized
  /\ \E i \in 1..Len(request.todos) :
       PriorityRank(response.todos[i].priority) < PriorityRank(request.todos[i].priority)
  /\ \E j \in 1..Len(request.todos) :
       /\ NoVocabulary(request.todos[j]) /\ ~BugFixInCodebase(request.todos[j])
       /\ request.todos[j].priority = "high"
       /\ response.todos[j].priority = "high"

\* C10: the overrides are tried in the order security/critical (high),
\* bug fix with a source containing "codebase" (high), nice-to-have (low),
\* unchanged; so a record with a security word and a nice-to-have word
\* ends high.
C10_OverrideOrder ==
  Reprioritized =>
    \A i \in 1..Len(request.todos) :
      LET todo == request.todos[i]
          content == ToLower(todo.content)
      IN  /\ response.todos[i].priority =
               IF isSecurityRelated(content) \/ isCriticalBusinessLogic(content) THEN "high"
               ELSE IF BugFixInCodebase(todo) THEN "high"
               ELSE IF isNiceToHave(content) THEN "low"
               ELSE todo.priority
          /\ (isSecurityRelated(content) /\ isNiceToHave(content))
               => response.todos[i].priority = "high"

\* a record of low priority with a security word and a nice-to-have word
\* came out high, and so did a nice-to-have bug fix from the codebase
C10_Witness ==
  /\ Reprioritized
  /\ \E i \in 1..Len(request.todos) :
       /\ isSecurityRelated(ToLower(request.todos[i].content))
       /\ isNiceToHave(ToLower(request.todos[i].content))
       /\ request.todos[i].priority = "low"
       /\ response.todos[i].priority = "high"
  /\ \E j \in 1..Len(request.todos) :
       /\ BugFixInCodebase(request.todos[j])
       /\ NoVocabulary(request.todos[j]) = FALSE
       /\ ~isSecurityRelated(ToLower(request.todos[j].content))
       /\ response.todos[j].priority = "high"

(***************************************************************************)
(* normalizeForConsolidation called on its own: the contents are lists of  *)
(* words of a small pool, written plainly and written again in another     *)
(* order, letter case, punctuation and spacing                             *)
(***************************************************************************)

WordPool ==
  << <<"a","d","d">>, <<"a","u","t","h">>, <<"u","s","e","r">>, <<"v","2">> >>

\* the longest list of words of a content
MaxWords == 3

WordLists == UNION { [1..n -> 1..Len(WordPool)] : n \in 0..MaxWords }

\* String.prototype.toUpperCase on one character
UpperChar(c) ==
  IF \E u \in UpperLetters : LowerMap[u] = c
  THEN CHOOSE u \in UpperLetters : LowerMap[u] = c
  ELSE c

\* the letter case of a word: as it is, in capitals, or capitalised
Cased(word, case) ==
  Array([i \in 1..Len(word) |->
           IF case = "upper" \/ (case = "capital" /\ i = 1) THEN UpperChar(word[i])
           ELSE word[i]])

\* punctuation attached to a word: after it, around it, or inside it
Punctuated(word, punct) ==
  CASE punct = "none" -> word
    [] punct = "bang" -> word \o <<"!">>
    [] punct = "parens" -> <<"(">> \o word \o <<")", ",">>
    [] punct = "inside" -> SubSeq(word, 1, 1) \o <<"'">> \o SubSeq(word, 2, Len(word))

Orders == {"same", "reversed", "rotated"}

Cases == {"lower", "upper", "capital"}

Punctuations == {"none", "bang", "parens", "inside"}

Spacings == {"single", "wide"}

\* the list in another order
Reordered(list, order) ==
  CASE order = "same" -> list
    [] order = "reversed" -> Array([i \in 1..Len(list) |-> list[Len(list) + 1 - i]])
    [] order = "rotated" -> IF list = <<>> THEN list ELSE Tail(list) \o <<Head(list)>>

\* the words of the pool a list of indices picks, written out
Written(picked, order, case, punct, spacing) ==
  IF spacing = "single"
  THEN Join(Array([i \in 1..Len(picked) |->
                     Punctuated(Cased(WordPool[Reordered(picked, order)[i]], case), punct)]),
            <<" ">>)
  ELSE <<" ">> \o Join(Array([i \in 1..Len(picked) |->
                     Punctuated(Cased(WordPool[Reordered(picked, order)[i]], case), punct)]),
                   <<" ", "\t", " ">>) \o <<"\t">>

\* contents that are not lists of words of the pool
OddContents ==
  { <<>>, <<" ">>, <<"!", "!">>, <<"_", "a", " ", "B", "1", "-", "c">>,
    <<"b", " ", ".", " ", "a">> }

InitNormalize ==
  /\ ids = [repomix |-> 1, markdown |-> 1, treeSitter |-> 1]
  /\ env = NoEnv
  /\ calls = <<>>
  /\ response = NoResponse
  /\ \/ \E picked \in WordLists, order \in Orders, case \in Cases,
           punct \in Punctuations, spacing \in Spacings :
          request = [name |-> "none", sameWords |-> TRUE,
                     contents |-> << Written(picked, "same", "lower", "none", "single"),
                                     Written(picked, order, case, punct, spacing) >>]
     \/ \E odd \in OddContents :
          request = [name |-> "none", sameWords |-> FALSE,
                     contents |-> << odd, Written(<<1>>, "same", "lower", "none", "single") >>]

\* normalizeForConsolidation(content), for each content of the request
CallNormalizeForConsolidation ==
  /\ request.name = "none"
  /\ request' = [request EXCEPT !.name = "normalizeForConsolidation"]
  /\ response' = [kind |-> "result",
                  keys |-> Array([i \in 1..Len(request.contents) |->
                                    normalizeForConsolidation(request.contents[i])])]
  /\ UNCHANGED <<ids, env, calls>>

\* normalizeForConsolidation(key), for each key returned
CallNormalizeKeys ==
  /\ request.name = "normalizeForConsolidation"
  /\ request' = [request EXCEPT !.name = "normalizeKeys"]
  /\ response' = [kind |-> "result",
                  keys |-> response.keys,
                  again |-> Array([i \in 1..Len(response.keys) |->
                                     normalizeForConsolidation(response.keys[i])])]
  /\ UNCHANGED <<ids, env, calls>>

NextNormalize ==
  \/ CallNormalizeForConsolidation
  \/ CallNormalizeKeys

SpecNormalize == InitNormalize /\ [][NextNormalize]_vars

(***************************************************************************)
(* Properties of normalizeForConsolidation                                 *)
(***************************************************************************)

\* C11: the key of a key is that key, and two contents made of the same
\* words, in whatever order, letter case, punctuation and spacing they
\* are written, have the same key
C11_KeyIdempotentOrderInsensitive ==
  /\ (request.name = "normalizeKeys" =>
        \A i \in 1..Len(response.keys) : response.again[i] = response.keys[i])
  /\ (request.name = "normalizeForConsolidation" /\ request.sameWords =>
        response.keys[1] = response.keys[2])

\* "add user auth" and "(Auth), (Add), (User)," written with wide spacing
\* were given the key "add auth user", and that key was normalized again
C11_Witness ==
  /\ request.name = "normalizeKeys"
  /\ request.sameWords
  /\ request.contents[1] = <<"a","d","d"," ","u","s","e","r"," ","a","u","t","h">>
  /\ request.contents[2] # request.contents[1]
  /\ \E i \in 1..Len(request.contents[2]) : request.contents[2][i] = "("
  /\ \E i \in 1..Len(request.contents[2]) : request.contents[2][i] = "A"
  /\ \E i \in 1..Len(request.contents[2]) : request.contents[2][i] = "\t"
  /\ response.keys[1] = <<"a","d","d"," ","a","u","t","h"," ","u","s","e","r">>
  /\ response.again[2] = response.keys[1]

(***************************************************************************)
(* Properties of the result of analyzeComplete                             *)
(***************************************************************************)

\* the summary of an analysis adds up
SummaryAdditive(analysis) ==
  /\ analysis.summary.total
       = analysis.summary.high_priority + analysis.summary.medium_priority
         + analysis.summary.low_priority
  /\ analysis.summary.total
       = Len(analysis.validatedTodos) + Len(analysis.supersededTodos)

\* C12: in the result analyzeComplete returns, and in the one its catch
\* block would return for the same context, summary.total is the sum of
\* high_priority, medium_priority and low_priority, and it is the length
\* of validatedTodos plus the length of supersededTodos.
C12_SummaryAdditive ==
  Answered =>
    /\ SummaryAdditive(response.analysis)
    /\ SummaryAdditive(FallbackResult(request.context.value))

\* an analysis with validated and superseded records, of more than one
\* priority
C12_Witness ==
  /\ Answered
  /\ response.analysis.validatedTodos # <<>>
  /\ response.analysis.supersededTodos # <<>>
  /\ response.analysis.summary.high_priority > 0
  /\ response.analysis.summary.total > response.analysis.summary.high_priority
  /\ FallbackResult(request.context.value).summary.total > 0

\* the four lists of an analysis, one after the other
Returned(analysis) ==
  analysis.contextTodos \o analysis.codebaseTodos
    \o analysis.validatedTodos \o analysis.supersededTodos

(***************************************************************************)
(* Properties of the cleanup report                                        *)
(***************************************************************************)

\* cleanup-todos returned a report
Cleaned == request.name = "cleanup-todos" /\ Answered

\* the entries of the four classification lists of a report, each with
\* the list it is in
Classified(report) ==
  Array([i \in 1..Len(report.staleItems) |->
           [list |-> "stale", todo |-> report.staleItems[i].todo]])
  \o Array([i \in 1..Len(report.completedItems) |->
           [list |-> "completed", todo |-> report.completedItems[i].todo]])
  \o Array([i \in 1..Len(report.supersededItems) |->
           [list |-> "superseded", todo |-> report.supersededItems[i].todo]])
  \o Array([i \in 1..Len(report.brokenReferences) |->
           [list |-> "broken", todo |-> report.brokenReferences[i].todo]])

\* C14: after analyzeForCleanup each TODO of the analysed set is in at
\* most one of staleItems, completedItems, supersededItems and
\* brokenReferences, and at most once in that list.
C14_OneClassification ==
  Cleaned =>
    \A i, j \in 1..Len(Classified(response.cleanupReport)) :
      Classified(response.cleanupReport)[i].todo.id
        = Classified(response.cleanupReport)[j].todo.id => i = j

\* the content is pure prose: words of letters separated by spaces, with
\* no call, path, digit or underscore, and no capital inside a word
PureProse(content) ==
  \A i \in 1..Len(content) :
    \/ content[i] = " "
    \/ IsLowerLetter(content[i])
    \/ content[i] \in UpperLetters /\ (i = 1 \/ content[i - 1] = " ")

\* the records of the safe_deletion recommendations of a report
SafeDeletions(report) ==
  Flatten(Array([r \in 1..Len(report.recommendations) |->
                   IF report.recommendations[r].type = "safe_deletion"
                   THEN report.recommendations[r].items ELSE <<>>]))

\* C15: a TODO whose content is pure prose, with no code-like reference,
\* is never reported stale, completed, superseded or broken-reference by
\* the cleanup analysis, whatever the search returns, and is never an
\* item of a safe_deletion recommendation.
C15_ProseNeverClassified ==
  Cleaned =>
    /\ \A i \in 1..Len(Classified(response.cleanupReport)) :
         ~PureProse(Classified(response.cleanupReport)[i].todo.content)
    /\ \A i \in 1..Len(SafeDeletions(response.cleanupReport)) :
         ~PureProse(SafeDeletions(response.cleanupReport)[i].content)

\* the record was made of a checkbox line marked "- [x]"
IsCompletedCheckbox(todo) ==
  /\ "completed" \in DOMAIN todo
  /\ todo.completed

\* C16: the record of a markdown checkbox marked completed ("- [x]") is
\* never part of the validatedTodos that analyzeComplete returns.
C16_CompletedNotValidated ==
  Answered =>
    \A i \in 1..Len(response.analysis.validatedTodos) :
      ~IsCompletedCheckbox(response.analysis.validatedTodos[i])

(***************************************************************************)
(* A session: one client sends analyze-codebase-todos requests to the same *)
(* server instance one after the other and keeps every analysis it gets.   *)
(* response holds the analyses received so far (received).                 *)
(***************************************************************************)

\* the number of requests of a session
MaxSessionCalls == 2

\* the contexts sent in a session
SessionContexts == {CtxSecurity, CtxDocs, CtxTests, CtxAuth}

\* the environments of a session: no service answers; every service
\* answers and README.md holds checkboxes; only the packer answers
SessionEnvs ==
  { NoEnv,
    [packOk |-> TRUE, grep |-> "code", registerOk |-> TRUE, ts |-> "project",
     md |-> "readme", cleanupPackOk |-> FALSE, packFailure |-> "returnedNull"],
    [packOk |-> TRUE, grep |-> "terse", registerOk |-> FALSE, ts |-> "down",
     md |-> "none", cleanupPackOk |-> FALSE, packFailure |-> "returnedNull"] }

Received == IF response.kind = "session" THEN response.received ELSE <<>>

InitSession == Init

\* the 'analyze-codebase-todos' branch, called again on the same
\* EnhancedTodoAnalyzer: the services keep their idCounter
CallInSession ==
  /\ Len(Received) < MaxSessionCalls
  /\ \E context \in SessionContexts, e \in SessionEnvs :
       \E run \in {analyzeComplete(ProjPath, context, e, ids)} :
         /\ request' = [name |-> "analyze-codebase-todos",
                        context |-> [present |-> TRUE, value |-> context],
                        projectPath |-> [present |-> TRUE, value |-> ProjPath]]
         /\ env' = e
         /\ response' = [kind |-> "session",
                         received |-> Append(Received, run.result)]
         /\ calls' = run.calls
         /\ ids' = run.ids

NextSession == CallInSession

SpecSession == InitSession /\ [][NextSession]_vars

\* every record of every analysis received in the session
Handed ==
  Flatten(Array([k \in 1..Len(Received) |-> Returned(Received[k])]))

\* C13: every record in contextTodos, codebaseTodos, validatedTodos and
\* supersededTodos returned by analyzeComplete, whichever extractor made
\* it, has a content that is longer than 3 characters once trimmed.
C13_MinimumLength ==
  \A i \in 1..Len(Handed) : Len(Trim(Handed[i].content)) > 3

\* C17: within one analysis call and across the calls of a session on the
\* same server instance, two different TodoRecords never have the same
\* id: records with the same id have the same content.
C17_IdsNeverReused ==
  \A i, j \in 1..Len(Handed) :
    Handed[i].id = Handed[j].id => Handed[i].content = Handed[j].content

(***************************************************************************)
(* The merge rule of consolidateDuplicates                                 *)
(***************************************************************************)

\* the positions of a list whose element appears there for the first time
FirstOf(xs) ==
  SelectSeq(Indices(xs), LAMBDA i : \A j \in 1..(i - 1) : xs[j] # xs[i])

\* the records with the key at position i of keys, in input order
GroupOf(todos, keys, i) ==
  With(SelectSeq(Indices(todos), LAMBDA m : keys[m] = keys[i]), LAMBDA members :
    Array([k \in 1..Len(members) |-> todos[members[k]]]))

\* the members of a group that bring a source no earlier member has
NewSources(group) ==
  With(FirstOf(Array([i \in 1..Len(group) |-> group[i].source])), LAMBDA first :
    Array([k \in 1..Len(first) |-> group[first[k]]]))

\* the record out is the one the merge rule makes of the group
MergedAs(out, group) ==
  IF Len(group) = 1 THEN out = group[1]
  ELSE /\ out.content = group[1].content
       /\ out.category = group[1].category
       /\ DOMAIN out = DOMAIN group[1]
       /\ out.priority = MaxPriority(group)
       /\ out.source = SourcesInOrder(NewSources(group))
       /\ out.id = [tag |-> <<"consolidated">> \o group[1].id.tag, n |-> group[1].id.n]

\* C18: consolidateDuplicates emits one record for each key, in the
\* order in which the keys first appear in the input; a group of one is
\* emitted unchanged, and a group of two or more as the fields of its
\* first member with the highest priority of the group, the distinct
\* sources of the group joined by "+" in order of first appearance, and
\* the id "consolidated-" followed by the id of the first member.
C18_MergeRule ==
  Consolidated =>
    \A keys \in {KeysOf(request.todos)} :
      /\ Len(response.todos) = Len(FirstOf(keys))
      /\ \A g \in 1..Len(FirstOf(keys)) :
           MergedAs(response.todos[g], GroupOf(request.todos, keys, FirstOf(keys)[g]))

\* "Write docs" (codebase, low), "write docs" (context, high) and "write
\* docs!" (context, medium) came out as one record with the content
\* "Write docs", the source codebase+context, priority high and the id
\* consolidated-codebase-11
C18_Witness ==
  /\ Consolidated
  /\ request.todos = <<DocsInCode, WriteDocs, DocsAgain>>
  /\ Len(response.todos) = 1
  /\ response.todos[1].content = DocsInCode.content
  /\ response.todos[1].source
       = <<"c","o","d","e","b","a","s","e","+","c","o","n","t","e","x","t">>
  /\ response.todos[1].priority = "high"
  /\ response.todos[1].id = [tag |-> <<"consolidated", "codebase">>, n |-> 11]

(***************************************************************************)
(* Properties of detectSuperseded.  response.keywordQueries holds the      *)
(* patterns detectSuperseded sent to the search, in order.                 *)
(***************************************************************************)

\* the text of a search hit: the line the search matched
HitText(hit) == IF hit.hasText THEN hit.text ELSE hit.content

\* the search for the keyword has a hit whose text holds an
\* implementation-context word and the keyword
StrongHit(behaviour, keyword) ==
  With(grepRepomixOutput(behaviour, keyword), LAMBDA grepResults :
    /\ grepResults.ok
    /\ \E i \in 1..Len(grepResults.results) :
         /\ IncludesAny(ToLower(HitText(grepResults.results[i])), implContexts)
         /\ Includes(ToLower(HitText(grepResults.results[i])), keyword))

\* the keywords of a TODO up to the first one with a strong hit
QueriedKeywords(behaviour, keywords) ==
  With({ k \in 1..Len(keywords) : StrongHit(behaviour, keywords[k]) }, LAMBDA strong :
    IF strong = {} THEN keywords ELSE SubSeq(keywords, 1, Min(strong)))

\* the entries detectSuperseded is to make for a list of TODOs: one for
\* each TODO that has a keyword with a strong hit
RECURSIVE ExpectedSuperseded(_, _)
ExpectedSuperseded(behaviour, todos) ==
  IF todos = <<>> THEN <<>>
  ELSE With(extractImplementationKeywords(Head(todos).content), LAMBDA keywords :
       With(QueriedKeywords(behaviour, keywords), LAMBDA queried :
         (IF queried # <<>> /\ StrongHit(behaviour, queried[Len(queried)])
          THEN << [todo |-> Head(todos), keyword |-> queried[Len(queried)],
                   confidence |-> 90] >>
          ELSE <<>>)
         \o ExpectedSuperseded(behaviour, Tail(todos))))

\* the keywords detectSuperseded is to query for a list of TODOs
ExpectedKeywordQueries(behaviour, todos) ==
  Flatten(Array([i \in 1..Len(todos) |->
                   QueriedKeywords(behaviour,
                                   extractImplementationKeywords(todos[i].content))]))

\* C19: detectSuperseded queries the implementation keywords of a TODO in
\* order; at the first keyword that has a hit whose text holds both an
\* implementation-context word and the keyword, the TODO is reported
\* superseded once, with confidence 0.9, and no later keyword of that TODO
\* is queried; a TODO without such a hit is not reported superseded.
C19_FirstStrongHitWins ==
  Cleaned =>
    \A todos \in {getAllTodos(response.analysis)} :
      /\ Array([i \in 1..Len(response.cleanupReport.supersededItems) |->
                 [todo |-> response.cleanupReport.supersededItems[i].todo,
                  keyword |-> response.cleanupReport.supersededItems[i].keyword,
                  confidence |-> response.cleanupReport.supersededItems[i].confidence]])
           = ExpectedSuperseded(env.grep, todos)
      /\ response.keywordQueries = ExpectedKeywordQueries(env.grep, todos)

(***************************************************************************)
(* cleanup-todos in two steps: analyzeComplete returns the analysis, then  *)
(* analyzeForCleanup packs the codebase again and searches it.  The second *)
(* packed output has its own search behaviour.                             *)
(***************************************************************************)

\* "TODO: fix parse() in old-file.js"
CtxParse == <<"T","O","D","O",":"," ","f","i","x"," ","p","a","r","s","e","(",")"," ","i","n"," ","o","l","d","-","f","i","l","e",".","j","s">>

\* "TODO: remove old-file.js"
CtxOldFile == <<"T","O","D","O",":"," ","r","e","m","o","v","e"," ","o","l","d","-","f","i","l","e",".","j","s">>

CleanupContexts == SessionContexts \cup {CtxParse, CtxOldFile}

InitCleanup == Init

\* the handler up to the return of analyzeComplete
CleanupAnalyzeComplete ==
  /\ request = NoRequest
  /\ \E context \in CleanupContexts, e \in SessionEnvs :
       \E run \in {analyzeComplete(ProjPath, context, e, ids)} :
         /\ request' = [name |-> "cleanup-todos",
                        context |-> [present |-> TRUE, value |-> context],
                        projectPath |-> [present |-> TRUE, value |-> ProjPath]]
         /\ env' = e
         /\ response' = [kind |-> "analysis", analysis |-> run.result]
         /\ calls' = run.calls
         /\ ids' = run.ids

\* the handler from the call of analyzeForCleanup on
CleanupAnalyzeForCleanup ==
  /\ response.kind = "analysis"
  /\ \E search \in CleanupSearches, cleanupPackOk \in BOOLEAN, failure \in PackFailures :
       \E e \in {[env EXCEPT !.grep = search, !.cleanupPackOk = cleanupPackOk,
                              !.packFailure = failure]} :
       /\ (cleanupPackOk => failure = "returnedNull")
       /\ \E cleanup \in {analyzeForCleanup(response.analysis, e)} :
         /\ env' = e
         /\ response' = IF cleanup.threw
                        THEN [kind |-> "error", message |-> cleanup.error,
                              queries |-> cleanup.queries]
                        ELSE [kind |-> "result",
                              analysis |-> response.analysis,
                              cleanupReport |-> cleanup.report,
                              queries |-> cleanup.queries,
                              keywordQueries |-> cleanup.keywordQueries]
         /\ calls' = calls \o cleanup.calls
         /\ UNCHANGED <<ids, request>>

NextCleanup ==
  \/ CleanupAnalyzeComplete
  \/ CleanupAnalyzeForCleanup

SpecCleanup == InitCleanup /\ [][NextCleanup]_vars

\* the search of the cleanup for a pattern answered
SearchOk(pattern) == grepRepomixOutput(env.grep, pattern).ok

\* the search of the cleanup for a pattern answered without a hit
NoHit(pattern) ==
  SearchOk(pattern) /\ grepRepomixOutput(env.grep, pattern).results = <<>>

\* the pattern detectBrokenReferences sends for a reference
BrokenPattern(referenceType, reference) ==
  IF referenceType = "file" THEN FilePattern(reference) ELSE FunctionPattern(reference)

Sent(pattern) == \E q \in 1..Len(response.queries) : response.queries[q] = pattern

\* no entry of the report comes from a search that failed
NoEntryFromFailure(report) ==
  /\ \A i \in 1..Len(report.staleItems) :
       \E refs \in {extractCodeReferences(report.staleItems[i].todo.content)} :
         \E r \in 1..Len(refs) :
           /\ refs[r].original = report.staleItems[i].reference
           /\ NoHit(refs[r].pattern)
  /\ \A i \in 1..Len(report.completedItems) :
       report.completedItems[i].evidence # <<>>
  /\ \A i \in 1..Len(report.supersededItems) :
       SearchOk(report.supersededItems[i].keyword)
  /\ \A i \in 1..Len(report.brokenReferences) :
       NoHit(BrokenPattern(report.brokenReferences[i].referenceType,
                           report.brokenReferences[i].brokenReference))

\* every reference of the TODO was searched, and those whose search
\* answered without a hit are reported
StillChecked(report, todo) ==
  /\ \A refs \in {extractCodeReferences(todo.content)} :
       \A r \in 1..Len(refs) :
         /\ Sent(refs[r].pattern)
         /\ NoHit(refs[r].pattern) =>
              \E i \in 1..Len(report.staleItems) :
                /\ report.staleItems[i].todo = todo
                /\ report.staleItems[i].reference = refs[r].original
  /\ \A referenceType \in {"file", "function"} :
       \A refs \in {IF referenceType = "file" THEN extractFileReferences(todo.content)
                     ELSE extractFunctionReferences(todo.content)} :
         \A r \in 1..Len(refs) :
           /\ Sent(BrokenPattern(referenceType, refs[r]))
           /\ NoHit(BrokenPattern(referenceType, refs[r])) =>
                \E i \in 1..Len(report.brokenReferences) :
                  /\ report.brokenReferences[i].todo = todo
                  /\ report.brokenReferences[i].referenceType = referenceType
                  /\ report.brokenReferences[i].brokenReference = refs[r]

\* C20: once the packing of analyzeForCleanup has succeeded, a search
\* that fails adds no entry to staleItems, completedItems, supersededItems
\* or brokenReferences, the other references and TODOs are still
\* searched and reported, and analyzeForCleanup returns a report.
C20_QueriesFaultTolerant ==
  (request.name = "cleanup-todos" /\ response.kind \in {"result", "error"}
   /\ env.cleanupPackOk) =>
    /\ response.kind = "result"
    /\ NoEntryFromFailure(response.cleanupReport)
    /\ \A todos \in {getAllTodos(response.analysis)} :
         \A t \in 1..Len(todos) : StillChecked(response.cleanupReport, todos[t])

\* the searches for parse failed and the others answered: "fix parse()
\* in old-file.js" is reported stale for fix and in, and old-file.js is
\* reported broken, but nothing is reported for parse
C20_Witness ==
  /\ request.context.value = CtxParse
  /\ response.kind = "result"
  /\ env.grep = "flaky"
  /\ \E q \in 1..Len(response.queries) : ~SearchOk(response.queries[q])
  /\ \E i \in 1..Len(response.cleanupReport.staleItems) :
       response.cleanupReport.staleItems[i].reference = <<"f","i","x">>
  /\ \E i \in 1..Len(response.cleanupReport.brokenReferences) :
       response.cleanupReport.brokenReferences[i].brokenReference
         = <<"o","l","d","-","f","i","l","e",".","j","s">>
  /\ \A i \in 1..Len(response.cleanupReport.brokenReferences) :
       response.cleanupReport.brokenReferences[i].referenceType = "file"

(***************************************************************************)
(* Properties of a cleanup whose packing fails                             *)
(***************************************************************************)

\* analyzeForCleanup has run in the two-step cleanup
CleanupDone == response.kind \in {"error", "result"}

\* C21: if packing the codebase fails, analyzeForCleanup rejects with an
\* error whose message is 'TODO cleanup analysis failed: ' followed by the
\* message of the error the packing threw; no search query is issued and
\* no report is returned.
C21_PackFailureRejects ==
  (CleanupDone /\ ~env.cleanupPackOk) =>
    /\ response.kind = "error"
    /\ \A underlying \in {PackCodebaseError(env.packFailure)} :
         /\ underlying.message # <<>>
         /\ response.message
              = <<"T","O","D","O"," ","c","l","e","a","n","u","p"," ","a","n","a","l","y","s","i","s"," ","f","a","i","l","e","d",":"," ">>
                  \o underlying.message
    /\ response.queries = <<>>
    /\ DOMAIN response \cap {"cleanupReport", "analysis"} = {}

\* the packing call rejected with Error('MCP connection failed')
C21_Witness ==
  /\ CleanupDone /\ ~env.cleanupPackOk
  /\ env.packFailure = "rejected"
  /\ env.grep = "code"
  /\ response.message
       = <<"T","O","D","O"," ","c","l","e","a","n","u","p"," ","a","n","a","l","y","s","i","s"," ","f","a","i","l","e","d",":"," ","F","a","i","l","e","d"," ","t","o"," ","p","a","c","k"," ","c","o","d","e","b","a","s","e",":"," ","M","C","P"," ","c","o","n","n","e","c","t","i","o","n"," ","f","a","i","l","e","d">>

(***************************************************************************)
(* Properties of the recommendations                                       *)
(***************************************************************************)

\* the recommendations of a type in a report
Recommended(report, type) ==
  SelectSeq(report.recommendations, LAMBDA rec : rec.type = type)

\* the TODOs of the findings that call for an update of a reference: the
\* stale findings with confidence > 0.7 and the broken-reference findings
UpdateFindings(report) ==
  Array([i \in 1..Len(SelectSeq(report.staleItems, LAMBDA item : item.confidence > 70)) |->
           SelectSeq(report.staleItems, LAMBDA item : item.confidence > 70)[i].todo])
  \o Array([i \in 1..Len(report.brokenReferences) |-> report.brokenReferences[i].todo])

\* C22: the update_references recommendation covers every stale finding
\* with confidence > 0.7 and every broken-reference finding: when there is
\* such a finding the recommendation exists, its items include the TODOs
\* of all such findings, its impact is medium, and its estimatedTimeSaved
\* is 3 minutes (6 half minutes) times the number of those findings.
C22_UpdateReferencesCoverBroken ==
  (CleanupDone /\ response.kind = "result") =>
    \A findings \in {UpdateFindings(response.cleanupReport)} :
    \A recs \in {Recommended(response.cleanupReport, "update_references")} :
      findings # <<>> =>
        /\ Len(recs) = 1
        /\ recs[1].priority = "medium"
        /\ Elems(findings) \subseteq Elems(recs[1].items)
        /\ recs[1].estimatedTimeSaved = 6 * Len(findings)

(***************************************************************************)
(* generateRecommendations on its own.  The reports it is applied to are   *)
(* those the four detections build; the searches include one whose hits    *)
(* carry the text property that analyzeForCompletion and                   *)
(* analyzeForSupersession read ("withText").                               *)
(***************************************************************************)

RecommendSearches == {"down", "code", "flaky", "withText"}

InitRecommend == Init

\* steps 2 to 5 of analyzeForCleanup
RecommendDetect ==
  /\ request = NoRequest
  /\ \E context \in CleanupContexts, e \in SessionEnvs, search \in RecommendSearches :
       \E run \in {analyzeComplete(ProjPath, context, e, ids)} :
       \E allTodos \in {getAllTodos(run.result)} :
       \E st1 \in {detectStaleAndCompleted(search,
                      [report |-> EmptyReport(getTotalTodos(run.result)), queries |-> <<>>],
                      allTodos)} :
       \E st2 \in {detectDuplicates(st1, allTodos)} :
       \E st3 \in {detectSuperseded(search, st2, allTodos)} :
       \E st4 \in {detectBrokenReferences(search, st3, allTodos)} :
         /\ request' = [name |-> "cleanup-todos",
                        context |-> [present |-> TRUE, value |-> context],
                        projectPath |-> [present |-> TRUE, value |-> ProjPath]]
         /\ env' = [e EXCEPT !.grep = search, !.cleanupPackOk = TRUE]
         /\ response' = [kind |-> "detected", report |-> st4.report]
         /\ calls' = run.calls \o <<"packCodebase">>
         /\ ids' = run.ids

\* step 6 of analyzeForCleanup
CallGenerateRecommendations ==
  /\ response.kind = "detected"
  /\ response' = [kind |-> "recommended", detected |-> response.report,
                  cleanupReport |-> generateRecommendations(response.report)]
  /\ UNCHANGED <<ids, request, env, calls>>

NextRecommend ==
  \/ RecommendDetect
  \/ CallGenerateRecommendations

SpecRecommend == InitRecommend /\ [][NextRecommend]_vars

\* the completed and the superseded items of a report with confidence
\* > 0.85, the completed ones first
Confident(report) ==
  SelectSeq(report.completedItems \o report.supersededItems,
            LAMBDA item : item.confidence > 85)

\* C23: generateRecommendations emits a safe_deletion recommendation
\* exactly when at least one completed or superseded item has confidence
\* > 0.85; its items are exactly the TODOs of those items, its priority is
\* high, its estimatedTimeSaved is 2 minutes (4 half minutes) times their
\* number, and cleanupSummary.safeDeletions equals that number.
C23_SafeDeletion ==
  response.kind = "recommended" =>
    \A items \in {Confident(response.detected)} :
    \A recs \in {Recommended(response.cleanupReport, "safe_deletion")} :
      /\ (recs # <<>>) <=> (items # <<>>)
      /\ Len(recs) <= 1
      /\ \A r \in 1..Len(recs) :
           /\ recs[r].items = Array([i \in 1..Len(items) |-> items[i].todo])
           /\ recs[r].priority = "high"
           /\ recs[r].estimatedTimeSaved = 4 * Len(items)
      /\ response.cleanupReport.cleanupSummary.safeDeletions = Len(items)

\* "update docs" with completed items of confidence 0.8 and superseded
\* items of confidence 0.9: the recommendation lists the superseded ones
C23_Witness ==
  /\ response.kind = "recommended"
  /\ request.context.value = CtxDocs
  /\ response.detected.completedItems # <<>>
  /\ \A i \in 1..Len(response.detected.completedItems) :
       response.detected.completedItems[i].confidence = 80
  /\ response.detected.supersededItems # <<>>
  /\ \E r \in 1..Len(response.cleanupReport.recommendations) :
       /\ response.cleanupReport.recommendations[r].type = "safe_deletion"
       /\ Len(response.cleanupReport.recommendations[r].items)
            = Len(response.detected.supersededItems)

(***************************************************************************)
(* The three determineCategory methods on their own                        *)
(***************************************************************************)

\* words of TODO contents: one for each test of determineCategory and one
\* that no test matches
CategoryWords ==
  << <<"u","n","i","t"," ","t","e","s","t">>, <<"f","i","x">>, <<"a","d","d">>, <<"o","p","t","i","m","i","z","e">>, <<"d","o","c","s">>, <<"i","t","e","m">> >>

\* the longest list of words of a content
MaxCategoryWords == 2

CategoryContents ==
  { Join(Array([i \in 1..Len(picked) |-> CategoryWords[picked[i]]]), <<" ">>) :
      picked \in UNION { [1..n -> 1..Len(CategoryWords)] : n \in 0..MaxCategoryWords } }

NoCategories == [kind |-> "categories", context |-> "none", codebase |-> "none", semantic |-> "none"]

InitCategory ==
  /\ ids = [repomix |-> 1, markdown |-> 1, treeSitter |-> 1]
  /\ env = NoEnv
  /\ calls = <<>>
  /\ response = NoCategories
  /\ \E content \in CategoryContents :
       request = [name |-> "determineCategory", content |-> content]

\* OriginalTodoAnalyzer.determineCategory(content)
CallDetermineCategory ==
  /\ request.name = "determineCategory"
  /\ response.context = "none"
  /\ response' = [response EXCEPT !.context = determineCategory(request.content)]
  /\ UNCHANGED <<ids, request, env, calls>>

\* RepomixService.determineCategory(content)
CallRepomixDetermineCategory ==
  /\ request.name = "determineCategory"
  /\ response.codebase = "none"
  /\ response' = [response EXCEPT !.codebase = repomixDetermineCategory(request.content)]
  /\ UNCHANGED <<ids, request, env, calls>>

\* TreeSitterService.determineCategory(content)
CallTreeSitterDetermineCategory ==
  /\ request.name = "determineCategory"
  /\ response.semantic = "none"
  /\ response' = [response EXCEPT !.semantic = treeSitterDetermineCategory(request.content)]
  /\ UNCHANGED <<ids, request, env, calls>>

NextCategory ==
  \/ CallDetermineCategory
  \/ CallRepomixDetermineCategory
  \/ CallTreeSitterDetermineCategory

SpecCategory == InitCategory /\ [][NextCategory]_vars

\* the category keyword tests in the order testing, bug-fix, feature,
\* refactoring, documentation
CategoryOrder ==
  << [category |-> "testing", keywords |-> << <<"t","e","s","t">>, <<"s","p","e","c">> >>],
     [category |-> "bug-fix", keywords |-> << <<"b","u","g">>, <<"f","i","x">> >>],
     [category |-> "feature", keywords |-> << <<"i","m","p","l","e","m","e","n","t">>, <<"a","d","d">>, <<"c","r","e","a","t","e">>, <<"b","u","i","l","d">> >>],
     [category |-> "refactoring", keywords |-> << <<"r","e","f","a","c","t","o","r">>, <<"o","p","t","i","m","i","z","e">> >>],
     [category |-> "documentation", keywords |-> << <<"d","o","c">>, <<"c","o","m","m","e","n","t">> >>] >>

\* the category of the first test of CategoryOrder that matches, general
\* when none does
FirstMatchCategory(content) ==
  IF \E k \in 1..Len(CategoryOrder) : IncludesAny(ToLower(content), CategoryOrder[k].keywords)
  THEN CategoryOrder[CHOOSE k \in 1..Len(CategoryOrder) :
                       /\ IncludesAny(ToLower(content), CategoryOrder[k].keywords)
                       /\ \A j \in 1..(k - 1) :
                            ~IncludesAny(ToLower(content), CategoryOrder[j].keywords)].category
  ELSE "general"

\* C24: the extractors assign categories identically: for every content
\* the context extractor, the codebase extractor and the semantic
\* extractor return the same category, the one of the first matching test
\* in the order testing, bug-fix, feature, refactoring, documentation,
\* general.
C24_CategoriesAgree ==
  (/\ request.name = "determineCategory"
   /\ response.context # "none" /\ response.codebase # "none" /\ response.semantic # "none") =>
    /\ response.context = response.codebase
    /\ response.codebase = response.semantic
    /\ response.context = FirstMatchCategory(request.content)

(***************************************************************************)
(* MarkdownTodoParser.  A code point outside the Basic Multilingual Plane  *)
(* or a symbol is one element of a text, written by its code point.        *)
(***************************************************************************)

RedCircle == "U+1F534"

Target == "U+1F3AF"

CrossMark == "U+274C"

YellowCircle == "U+1F7E1"

Hourglass == "U+23F3"

Arrows == "U+1F504"

GreenCircle == "U+1F7E2"

\* ^(\s*)-\s* : the position after the dash and the white space that
\* follows it, 0 when the line does not start that way
AfterDash(line) ==
  With(SkipSpaces(line, 1), LAMBDA dash :
    IF dash <= Len(line) /\ line[dash] = "-" THEN SkipSpaces(line, dash + 1) ELSE 0)

\* \s*(.+) from position i to the end of the line: what (.+) matches,
\* nothing when there is no match; when only white space is left the
\* last character of it is given back to (.+)
RestContent(line, i) ==
  With(SkipSpaces(line, i), LAMBDA rest :
    IF rest <= Len(line) THEN From(line, rest)
    ELSE IF i >= 1 /\ i <= Len(line) THEN <<line[Len(line)]>>
    ELSE <<>>)

\* MarkdownTodoParser.extractPriorityFromSection
extractPriorityFromSection(section) ==
  With(ToLower(section), LAMBDA lower :
    LET Has(w) == Includes(lower, w)
    IN  IF Has(<<"p","r","i","o","r","i","t","y"," ","1">>) \/ Has(<<RedCircle>>) \/ Has(<<Target>>) THEN "high"
        ELSE IF Has(<<"p","r","i","o","r","i","t","y"," ","2">>) \/ Has(<<YellowCircle>>) THEN "medium"
        ELSE IF Has(<<"p","r","i","o","r","i","t","y"," ","3">>) \/ Has(<<GreenCircle>>) \/ Has(<<"c","o","m","p","l","e","t","e","d">>) THEN "low"
        ELSE IF Has(<<"u","r","g","e","n","t">>) \/ Has(<<"c","r","i","t","i","c","a","l">>) \/ Has(<<"b","l","o","c","k","i","n","g">>) THEN "high"
        ELSE IF Has(<<"l","o","w"," ","p","r","i","o","r","i","t","y">>) \/ Has(<<"l","o","w">>) THEN "low"
        ELSE "medium")

highKeywords ==
  << <<"u","r","g","e","n","t">>, <<"c","r","i","t","i","c","a","l">>, <<"b","l","o","c","k","i","n","g">>, <<"a","s","a","p">>, <<"i","m","m","e","d","i","a","t","e","l","y">>, <<"p","r","o","d","u","c","t","i","o","n">>, <<"s","e","c","u","r","i","t","y">> >>

lowKeywords ==
  << <<"n","i","c","e"," ","t","o"," ","h","a","v","e">>, <<"o","p","t","i","o","n","a","l">>, <<"f","u","t","u","r","e">>, <<"c","o","n","s","i","d","e","r">>, <<"m","a","y","b","e">>, <<"e","v","e","n","t","u","a","l","l","y">> >>

\* the test of the low keywords before the test of the high keywords
enhancePriorityFromContent_LowFirst(content, basePriority) ==
  IF IncludesAny(ToLower(content), lowKeywords) THEN "low"
  ELSE IF IncludesAny(ToLower(content), highKeywords) THEN "high"
  ELSE basePriority

\* MarkdownTodoParser.enhancePriorityFromContent
enhancePriorityFromContent(content, basePriority) ==
  IF IncludesAny(ToLower(content), highKeywords) THEN "high"
  ELSE IF IncludesAny(ToLower(content), lowKeywords) THEN "low"
  ELSE basePriority

\* MarkdownTodoParser.categorizeFromSection
categorizeFromSection(section) ==
  With(ToLower(section), LAMBDA lower :
    LET Has(w) == Includes(lower, w)
    IN  IF Has(<<"d","e","p","l","o","y">>) \/ Has(<<"p","r","o","d","u","c","t","i","o","n">>) THEN "deployment"
        ELSE IF Has(<<"t","e","s","t">>) \/ Has(<<"q","a">>) THEN "testing"
        ELSE IF Has(<<"d","o","c">>) \/ Has(<<"r","e","a","d","m","e">>) THEN "documentation"
        ELSE IF Has(<<"r","e","f","a","c","t","o","r">>) \/ Has(<<"a","r","c","h","i","t","e","c","t">>) THEN "refactoring"
        ELSE IF Has(<<"b","u","g">>) \/ Has(<<"f","i","x">>) THEN "bug-fix"
        ELSE IF Has(<<"f","e","a","t","u","r","e">>) \/ Has(<<"i","m","p","l","e","m","e","n","t">>) THEN "feature"
        ELSE IF Has(<<"c","o","n","f","i","g">>) \/ Has(<<"s","e","t","u","p">>) THEN "configuration"
        ELSE IF Has(<<"m","o","n","i","t","o","r">>) \/ Has(<<"o","b","s","e","r","v">>) THEN "monitoring"
        ELSE "general")

\* MarkdownTodoParser.categorizeFromTaskType
categorizeFromTaskType(taskType) ==
  With(ToLower(taskType), LAMBDA lower :
    LET Has(w) == Includes(lower, w)
    IN  IF Has(<<"t","e","s","t">>) THEN "testing"
        ELSE IF Has(<<"d","o","c">>) THEN "documentation"
        ELSE IF Has(<<"c","o","n","f","i","g">>) \/ Has(<<"s","e","t","u","p">>) THEN "configuration"
        ELSE IF Has(<<"d","e","p","l","o","y">>) THEN "deployment"
        ELSE IF Has(<<"m","o","n","i","t","o","r">>) THEN "monitoring"
        ELSE "implementation")

\* MarkdownTodoParser.parsePriorityFromTableCell
parsePriorityFromTableCell(cell) ==
  With(Trim(ToLower(cell)), LAMBDA lower :
    LET Has(w) == Includes(lower, w)
    IN  IF Has(<<"p","1">>) \/ Has(<<"h","i","g","h">>) \/ Has(<<RedCircle>>) THEN "high"
        ELSE IF Has(<<"p","3">>) \/ Has(<<"l","o","w">>) \/ Has(<<GreenCircle>>) THEN "low"
        ELSE "medium")

\* MarkdownTodoParser.priorityFromMarker; marker.toUpperCase() is compared
priorityFromMarker(marker, basePriority) ==
  With(ToLower(marker), LAMBDA m :
    IF m = <<"f","i","x","m","e">> \/ m = <<"x","x","x">> THEN "high"
    ELSE IF m = <<"t","o","d","o">> THEN basePriority
    ELSE IF m = <<"n","o","t","e">> THEN "low"
    ELSE basePriority)

\* MarkdownTodoParser.priorityFromStatusEmoji
priorityFromStatusEmoji(emoji, basePriority) ==
  IF emoji \in {RedCircle, Target, CrossMark} THEN "high"
  ELSE IF emoji \in {YellowCircle, Hourglass, Arrows} THEN "medium"
  ELSE IF emoji = GreenCircle THEN "low"
  ELSE basePriority

\* MarkdownTodoParser.categorizeFromMarker
categorizeFromMarker(marker) ==
  With(ToLower(marker), LAMBDA m :
    IF m = <<"f","i","x","m","e">> \/ m = <<"x","x","x">> THEN "bug-fix"
    ELSE IF m = <<"t","o","d","o">> THEN "feature"
    ELSE IF m = <<"n","o","t","e">> THEN "documentation"
    ELSE "general")

\* MarkdownTodoParser.categorizeFromStatus
categorizeFromStatus(emoji) ==
  IF emoji = Target THEN "priority-task"
  ELSE IF emoji = Arrows THEN "in-progress"
  ELSE IF emoji = Hourglass THEN "waiting"
  ELSE IF emoji = CrossMark THEN "blocked"
  ELSE "general"

\* MarkdownTodoParser.categorizeFromTableContext
categorizeFromTableContext(section) ==
  IF Includes(ToLower(section), <<"c","l","i">>) THEN "cli"
  ELSE IF Includes(ToLower(section), <<"a","p","i">>) THEN "api"
  ELSE IF Includes(ToLower(section), <<"b","a","c","k","e","n","d">>) THEN "backend"
  ELSE "implementation"

SourceMarkdownBullet == <<"m","a","r","k","d","o","w","n","-","b","u","l","l","e","t">>

SourceMarkdownTable == <<"m","a","r","k","d","o","w","n","-","t","a","b","l","e">>

SourceMarkdownInline == <<"m","a","r","k","d","o","w","n","-","i","n","l","i","n","e">>

SourceMarkdownStatus == <<"m","a","r","k","d","o","w","n","-","s","t","a","t","u","s">>

SourceMarkdownYaml == <<"m","a","r","k","d","o","w","n","-","y","a","m","l">>

\* MarkdownTodoParser.parseCheckboxTodo: no record (null) or one;
\* /^(\s*)-\s*\[\s*([x\s])\s*\]\s*(.+)/
parseCheckboxTodo(line, filePath, lineNumber, section, priority, idCounter) ==
  With(AfterDash(line), LAMBDA open :
  With((IF open >= 1 /\ open <= Len(line) /\ line[open] = "[" THEN SkipSpaces(line, open + 1) ELSE 0),
       LAMBDA inner :
  With(inner >= 1 /\ inner <= Len(line) /\ line[inner] = "x", LAMBDA isCompleted :
  With((IF isCompleted THEN SkipSpaces(line, inner + 1) ELSE inner), LAMBDA close :
  With((IF /\ inner >= 1
           /\ close <= Len(line) /\ line[close] = "]"
           /\ (isCompleted \/ inner > open + 1)
        THEN RestContent(line, close + 1) ELSE <<>>),
       LAMBDA content :
    IF content = <<>> THEN <<>>
    ELSE << [id |-> [tag |-> <<"md", "checkbox">>, n |-> idCounter],
             content |-> Trim(content),
             priority |-> (IF isCompleted THEN "low"
                           ELSE enhancePriorityFromContent(content, priority)),
             category |-> categorizeFromSection(section),
             source |-> SourceMarkdownCheckbox,
             file |-> filePath,
             line |-> lineNumber,
             metadata |-> [section |-> section,
                           completed |-> isCompleted,
                           indentLevel |-> (SkipSpaces(line, 1) - 1) \div 2,
                           originalLine |-> Trim(line)]] >>)))))

\* MarkdownTodoParser.parseBulletTodo;
\* /^(\s*)-\s*\*\*([^*]+)\*\*:\s*(.+)/
parseBulletTodo(line, filePath, lineNumber, section, priority, idCounter) ==
  With(AfterDash(line), LAMBDA open :
  With((IF open >= 1 /\ MatchAt(line, open, <<"*", "*">>)
        THEN { j \in (open + 2)..Len(line) : line[j] = "*" } ELSE {}),
       LAMBDA stars :
  With((IF stars # {} /\ Min(stars) > open + 2 /\ MatchAt(line, Min(stars), <<"*", "*", ":">>)
        THEN Min(stars) ELSE 0),
       LAMBDA close :
  With((IF close > 0 THEN RestContent(line, close + 3) ELSE <<>>), LAMBDA content :
    IF content = <<>> THEN <<>>
    ELSE << [id |-> [tag |-> <<"md", "bullet">>, n |-> idCounter],
             content |-> SubSeq(line, open + 2, close - 1) \o <<":", " ">> \o Trim(content),
             priority |-> enhancePriorityFromContent(content, priority),
             category |-> categorizeFromTaskType(SubSeq(line, open + 2, close - 1)),
             source |-> SourceMarkdownBullet,
             file |-> filePath,
             line |-> lineNumber,
             metadata |-> [section |-> section,
                           taskType |-> SubSeq(line, open + 2, close - 1),
                           indentLevel |-> (SkipSpaces(line, 1) - 1) \div 2,
                           originalLine |-> Trim(line)]] >>))))

\* MarkdownTodoParser.parseTableRowTodo;
\* /^\|([^|]+)\|([^|]+)\|([^|]+)\|([^|]*)\|/ and the line two above
parseTableRowTodo(line, lines, lineNumber, filePath, section, idCounter) ==
  With(Split(line, "|"), LAMBDA cells :
  With((IF lineNumber > 2 THEN ToLower(lines[lineNumber - 2]) ELSE <<>>), LAMBDA headerLine :
    IF \/ Len(cells) < 6
       \/ cells[1] # <<>> \/ cells[2] = <<>> \/ cells[3] = <<>> \/ cells[4] = <<>>
    THEN <<>>
    ELSE IF ~Includes(headerLine, <<"d","e","s","c","r","i","p","t","i","o","n">>) /\ ~Includes(headerLine, <<"t","a","s","k">>)
    THEN <<>>
    ELSE << [id |-> [tag |-> <<"md", "table">>, n |-> idCounter],
             content |-> Trim(cells[4]),
             priority |-> parsePriorityFromTableCell(cells[5]),
             category |-> categorizeFromTableContext(section),
             source |-> SourceMarkdownTable,
             file |-> filePath,
             line |-> lineNumber,
             metadata |-> [section |-> section,
                           sourceFile |-> Trim(cells[2]),
                           sourceLine |-> Trim(cells[3]),
                           originalLine |-> Trim(line)]] >>))

inlineMarkers == << <<"t","o","d","o">>, <<"f","i","x","m","e">>, <<"x","x","x">>, <<"n","o","t","e">> >>

\* the marker of /(?:^|\s)(TODO|FIXME|XXX|NOTE):\s*(.+)/i at position p
\* of the line, 0 when there is none
InlineMarkerAt(line, p) ==
  With({ k \in 1..Len(inlineMarkers) :
           /\ (p = 1 \/ IsSpace(line[p - 1]))
           /\ MatchAtI(line, p, inlineMarkers[k])
           /\ MatchAt(line, p + Len(inlineMarkers[k]), <<":">>)
           /\ RestContent(line, p + Len(inlineMarkers[k]) + 1) # <<>> },
       LAMBDA found : IF found = {} THEN 0 ELSE Min(found))

\* MarkdownTodoParser.parseInlineTodo
parseInlineTodo(line, filePath, lineNumber, section, priority, idCounter) ==
  With({ p \in 1..Len(line) : InlineMarkerAt(line, p) > 0 }, LAMBDA starts :
    IF starts = {} THEN <<>>
    ELSE With(Min(starts), LAMBDA p :
         With(inlineMarkers[InlineMarkerAt(line, p)], LAMBDA m :
           << [id |-> [tag |-> <<"md", "inline">>, n |-> idCounter],
               content |-> Trim(RestContent(line, p + Len(m) + 1)),
               priority |-> priorityFromMarker(m, priority),
               category |-> categorizeFromMarker(m),
               source |-> SourceMarkdownInline,
               file |-> filePath,
               line |-> lineNumber,
               metadata |-> [section |-> section,
                             marker |-> Array([i \in 1..Len(m) |-> UpperChar(m[i])]),
                             originalLine |-> Trim(line)]] >>)))

statusEmojis == {CrossMark, Hourglass, Arrows, Target, RedCircle, YellowCircle, GreenCircle}

\* MarkdownTodoParser.parseStatusTodo
parseStatusTodo(line, filePath, lineNumber, section, priority, idCounter) ==
  With(SkipSpaces(line, 1), LAMBDA at :
  With((IF at <= Len(line) /\ line[at] \in statusEmojis THEN RestContent(line, at + 1) ELSE <<>>),
       LAMBDA content :
    IF content = <<>> THEN <<>>
    ELSE << [id |-> [tag |-> <<"md", "status">>, n |-> idCounter],
             content |-> Trim(content),
             priority |-> priorityFromStatusEmoji(line[at], priority),
             category |-> categorizeFromStatus(line[at]),
             source |-> SourceMarkdownStatus,
             file |-> filePath,
             line |-> lineNumber,
             metadata |-> [section |-> section,
                           statusEmoji |-> line[at],
                           indentLevel |-> (at - 1) \div 2,
                           originalLine |-> Trim(line)]] >>))

\* the end of the line of s that holds position i
LineEnd(s, i) ==
  With({ j \in i..Len(s) : s[j] = "\n" }, LAMBDA breaks :
    IF breaks = {} THEN Len(s) ELSE Min(breaks) - 1)

\* one item (?:\s*-\s*.+\n?) at position i of s: the position after it,
\* 0 when there is no item; white space includes line breaks, and when
\* only white space follows the dash (.+) takes the last of it that is
\* no line break
YamlItemEnd(s, i) ==
  With(SkipSpaces(s, i), LAMBDA dash :
    IF dash > Len(s) \/ s[dash] # "-" THEN 0
    ELSE With(SkipSpaces(s, dash + 1), LAMBDA text :
         With({ j \in (dash + 1)..Len(s) : s[j] # "\n" }, LAMBDA plain :
         With((IF text <= Len(s) THEN text ELSE IF plain # {} THEN Max(plain) ELSE 0), LAMBDA from :
           IF from = 0 THEN 0
           ELSE IF LineEnd(s, from) < Len(s) THEN LineEnd(s, from) + 2
           ELSE Len(s) + 1))))

\* the position after the last of the items that follow one another
\* from position i
RECURSIVE YamlItemsEnd(_, _)
YamlItemsEnd(s, i) ==
  IF i > Len(s) \/ YamlItemEnd(s, i) = 0 THEN i
  ELSE YamlItemsEnd(s, YamlItemEnd(s, i))

\* /(?:todo|tasks):\s*\n/ at position p of s: the position after the
\* line break it ends with, 0 when there is no match
YamlKeyAt(s, p) ==
  With((IF MatchAt(s, p, <<"t","o","d","o",":">>) THEN p + 5
        ELSE IF MatchAt(s, p, <<"t","a","s","k","s",":">>) THEN p + 6 ELSE 0),
       LAMBDA after :
    IF after = 0 THEN 0
    ELSE With({ j \in after..(SkipSpaces(s, after) - 1) : s[j] = "\n" }, LAMBDA breaks :
           IF breaks = {} THEN 0 ELSE Max(breaks) + 1))

\* the records of the lines of the list, the index counting the lines
\* that are not blank
RECURSIVE YamlTasks(_, _, _, _, _)
YamlTasks(todoLines, index, filePath, lineNumber, acc) ==
  IF index > Len(todoLines) THEN acc
  ELSE With(AfterDash(todoLines[index]), LAMBDA text :
       With((IF text > 0 THEN RestContent(todoLines[index], text) ELSE <<>>), LAMBDA content :
         YamlTasks(todoLines, index + 1, filePath, lineNumber,
                   IF content = <<>> THEN acc
                   ELSE [todos |-> Append(acc.todos,
                           [id |-> [tag |-> <<"md", "yaml">>, n |-> acc.idCounter],
                            content |-> Trim(content),
                            priority |-> "medium",
                            category |-> "yaml-metadata",
                            source |-> SourceMarkdownYaml,
                            file |-> filePath,
                            line |-> lineNumber + index - 1,
                            metadata |-> [section |-> <<"y","a","m","l","-","f","r","o","n","t","m","a","t","t","e","r">>,
                                          originalLine |-> Trim(todoLines[index])]]),
                         idCounter |-> acc.idCounter + 1])))

\* MarkdownTodoParser.parseYamlTodos: the records and the idCounter
\* afterwards
parseYamlTodos(yamlContent, filePath, lineNumber, idCounter) ==
  With({ p \in 1..Len(yamlContent) : YamlKeyAt(yamlContent, p) > 0 }, LAMBDA keys :
    IF keys = {} THEN [todos |-> <<>>, idCounter |-> idCounter]
    ELSE With(YamlKeyAt(yamlContent, Min(keys)), LAMBDA first :
         With(SubSeq(yamlContent, first, YamlItemsEnd(yamlContent, first) - 1), LAMBDA list :
           YamlTasks(SelectSeq(Split(list, "\n"), LAMBDA line : Trim(line) # <<>>),
                     1, filePath, lineNumber,
                     [todos |-> <<>>, idCounter |-> idCounter]))))

\* the number of # a line starts with
RECURSIVE Hashes(_)
Hashes(line) ==
  IF line # <<>> /\ Head(line) = "#" THEN 1 + Hashes(Tail(line)) ELSE 0

\* line.match(/^#{1,6}\s/)
IsHeading(line) ==
  /\ Hashes(line) \in 1..6
  /\ Hashes(line) < Len(line)
  /\ IsSpace(line[Hashes(line) + 1])

\* the five parsers applied to a line, each taking the idCounter the one
\* before it left
ParseTodoLine(lines, lineNumber, filePath, st) ==
  With(lines[lineNumber], LAMBDA line :
  With(parseCheckboxTodo(line, filePath, lineNumber, st.currentSection, st.currentPriority,
                         st.idCounter),
       LAMBDA checkboxTodo :
  With(parseBulletTodo(line, filePath, lineNumber, st.currentSection, st.currentPriority,
                       st.idCounter + Len(checkboxTodo)),
       LAMBDA bulletTodo :
  With(parseTableRowTodo(line, lines, lineNumber, filePath, st.currentSection,
                         st.idCounter + Len(checkboxTodo) + Len(bulletTodo)),
       LAMBDA tableRowTodo :
  With(parseInlineTodo(line, filePath, lineNumber, st.currentSection, st.currentPriority,
                       st.idCounter + Len(checkboxTodo) + Len(bulletTodo) + Len(tableRowTodo)),
       LAMBDA inlineTodo :
  With(parseStatusTodo(line, filePath, lineNumber, st.currentSection, st.currentPriority,
                       st.idCounter + Len(checkboxTodo) + Len(bulletTodo) + Len(tableRowTodo)
                         + Len(inlineTodo)),
       LAMBDA statusTodo :
  With(checkboxTodo \o bulletTodo \o tableRowTodo \o inlineTodo \o statusTodo, LAMBDA pushed :
    [st EXCEPT !.todos = @ \o pushed, !.idCounter = @ + Len(pushed)])))))))

\* the body of the loop of parseMarkdownTodos for one line
ParseLine(lines, lineNumber, filePath, st) ==
  With(lines[lineNumber], LAMBDA line :
    IF Trim(line) = <<"-", "-", "-">>
    THEN (IF st.inYamlFrontmatter /\ st.yamlContent # <<>>
          THEN With(parseYamlTodos(st.yamlContent, filePath, lineNumber, st.idCounter), LAMBDA yaml :
                 [st EXCEPT !.inYamlFrontmatter = FALSE,
                            !.todos = @ \o yaml.todos,
                            !.idCounter = yaml.idCounter,
                            !.yamlContent = <<>>])
          ELSE [st EXCEPT !.inYamlFrontmatter = ~@])
    ELSE IF st.inYamlFrontmatter
    THEN [st EXCEPT !.yamlContent = @ \o line \o <<"\n">>]
    ELSE IF IsHeading(line)
    THEN With(Trim(From(line, Hashes(line) + 2)), LAMBDA section :
           [st EXCEPT !.currentSection = section,
                      !.currentPriority = extractPriorityFromSection(section)])
    ELSE ParseTodoLine(lines, lineNumber, filePath, st))

RECURSIVE ParseLines(_, _, _, _)
ParseLines(lines, lineNumber, filePath, st) ==
  IF lineNumber > Len(lines) THEN st
  ELSE ParseLines(lines, lineNumber + 1, filePath, ParseLine(lines, lineNumber, filePath, st))

\* MarkdownTodoParser.parseMarkdownTodos: the records and the idCounter
\* afterwards
parseMarkdownTodos(content, filePath, idCounter) ==
  With(ParseLines(Split(content, "\n"), 1, filePath,
                  [todos |-> <<>>, idCounter |-> idCounter,
                   currentSection |-> <<>>, currentPriority |-> "medium",
                   inYamlFrontmatter |-> FALSE, yamlContent |-> <<>>]),
       LAMBDA st : [todos |-> st.todos, idCounter |-> st.idCounter])

(***************************************************************************)
(* parseMarkdownTodos on its own: documents made of a few lines            *)
(***************************************************************************)

\* pieces of a document: a --- line, three headings, three checkboxes, a
\* bullet, an inline marker, and a block of YAML between two --- lines
\* that holds a comment and a list of tasks
MdChunks ==
  << <<"-","-","-">>,
     <<"#"," ","U","r","g","e","n","t"," ","f","i","x","e","s">>,
     <<"#","#"," ","N","o","t","e","s">>,
     <<"#","#","#"," ","L","o","w"," ","p","r","i","o","r","i","t","y">>,
     <<"-"," ","["," ","]"," ","w","r","i","t","e"," ","r","e","p","o","r","t">>,
     <<"-"," ","[","x","]"," ","u","r","g","e","n","t"," ","c","l","e","a","n","u","p">>,
     <<"-"," ","["," ","]"," ","o","p","t","i","o","n","a","l"," ","b","u","t"," ","c","r","i","t","i","c","a","l">>,
     <<"-"," ","*","*","D","o","c","s","*","*",":"," ","m","a","y","b","e"," ","u","p","d","a","t","e"," ","g","u","i","d","e">>,
     <<"T","O","D","O",":"," ","c","h","e","c","k"," ","l","o","g","s">>,
     <<"-","-","-","\n","#"," ","U","r","g","e","n","t"," ","t","a","s","k","s","\n","t","a","s","k","s",":","\n"," "," ","-"," ","s","h","i","p"," ","i","t","\n","-","-","-">> >>

\* the greatest number of pieces of a document
MaxMdChunks == 3

MdDocuments ==
  { Join(Array([i \in 1..Len(picked) |-> MdChunks[picked[i]]]), <<"\n">>) :
      picked \in UNION { [1..n -> 1..Len(MdChunks)] : n \in 0..MaxMdChunks } }

MdFile == <<"R","E","A","D","M","E",".","m","d">>

InitMarkdown ==
  /\ ids = [repomix |-> 1, markdown |-> 1, treeSitter |-> 1]
  /\ env = NoEnv
  /\ calls = <<>>
  /\ response = NoResponse
  /\ \E content \in MdDocuments :
       request = [name |-> "parseMarkdownTodos", content |-> content]

\* markdownParser.parseMarkdownTodos(content, relativePath)
CallParseMarkdownTodos ==
  /\ request.name = "parseMarkdownTodos"
  /\ response = NoResponse
  /\ \E parsed \in {parseMarkdownTodos(request.content, MdFile, ids.markdown)} :
       /\ response' = [kind |-> "todos", todos |-> parsed.todos]
       /\ ids' = [ids EXCEPT !.markdown = parsed.idCounter]
  /\ UNCHANGED <<request, env, calls>>

NextMarkdown == CallParseMarkdownTodos

SpecMarkdown == InitMarkdown /\ [][NextMarkdown]_vars

(***************************************************************************)
(* Properties of parseMarkdownTodos                                        *)
(***************************************************************************)

\* parseMarkdownTodos has returned
Parsed == request.name = "parseMarkdownTodos" /\ response.kind = "todos"

\* the lines of the document parsed
MdLines == Split(request.content, "\n")

IsRule(line) == Trim(line) = <<"-", "-", "-">>

\* line k lies between a --- line and the next --- line or the end
InBlock(lines, k) ==
  Cardinality({ j \in 1..(k - 1) : IsRule(lines[j]) }) % 2 = 1

\* the heading lines before line k: the lines written as headings that
\* are not between two --- lines
HeadingsReadBefore(lines, k) ==
  { j \in 1..(k - 1) : IsHeading(lines[j]) /\ ~InBlock(lines, j) }

\* the priority derived from the last of a set of heading lines, medium
\* when there is none
BaseFrom(lines, headings) ==
  IF headings = {} THEN "medium"
  ELSE extractPriorityFromSection(
         Trim(From(lines[Max(headings)], Hashes(lines[Max(headings)]) + 2)))

\* the content of the line of a checkbox or bullet record
OwnContent(todo) ==
  IF todo.source = SourceMarkdownBullet
  THEN From(todo.content, Len(todo.metadata.taskType) + 3)
  ELSE todo.content

\* base unless the content holds a high keyword or, failing that, a low
\* keyword
Overridden(content, base) ==
  IF \E k \in 1..Len(highKeywords) : Includes(ToLower(content), highKeywords[k]) THEN "high"
  ELSE IF \E k \in 1..Len(lowKeywords) : Includes(ToLower(content), lowKeywords[k]) THEN "low"
  ELSE base

IsCheckboxOrBullet(todo) == todo.source \in {SourceMarkdownCheckbox, SourceMarkdownBullet}

C25_WitnessReset ==
  /\ Parsed
  /\ MdLines = << MdChunks[2], MdChunks[3], MdChunks[5] >>
  /\ Len(response.todos) = 1
  /\ response.todos[1].priority = "medium"

\* a block of YAML with the comment "# Urgent tasks", then a checkbox:
\* the comment is no heading and the checkbox is medium
C25_WitnessBlock ==
  /\ Parsed
  /\ MdLines = Split(MdChunks[10], "\n") \o << MdChunks[5] >>
  /\ Len(response.todos) = 2
  /\ response.todos[2].source = SourceMarkdownCheckbox
  /\ response.todos[2].priority = "medium"

(***************************************************************************)
(* Properties of the use the cleanup makes of the search hits              *)
(***************************************************************************)

\* the search for a pattern answers with a hit {file, line, content,
\* match} whose line holds one of the words
HitLineHolds(behaviour, pattern, words) ==
  With(grepRepomixOutput(behaviour, pattern), LAMBDA grepResults :
    /\ grepResults.ok
    /\ \E i \in 1..Len(grepResults.results) :
         /\ ~grepResults.results[i].hasText
         /\ IncludesAny(ToLower(grepResults.results[i].content), words))

\* the search for a keyword answers with a hit whose line holds an
\* implementation-context word and the keyword
HitLineImplements(behaviour, keyword) ==
  With(grepRepomixOutput(behaviour, keyword), LAMBDA grepResults :
    /\ grepResults.ok
    /\ \E i \in 1..Len(grepResults.results) :
         /\ ~grepResults.results[i].hasText
         /\ IncludesAny(ToLower(grepResults.results[i].content), implContexts)
         /\ Includes(ToLower(grepResults.results[i].content), keyword))

\* C26: the hits mcpClient.grepRepomixOutput delivers (file, line,
\* content, match) are usable by the cleanup analysis: a TODO with a code
\* reference whose search has a hit with a completion word in its line is
\* reported completed, and a TODO with a keyword whose search has a hit
\* with an implementation-context word and the keyword in its line is
\* reported superseded.
C26_HitsUsable ==
  (CleanupDone /\ response.kind = "result") =>
    \A todos \in {getAllTodos(response.analysis)} : \A t \in 1..Len(todos) :
      /\ (\E refs \in {extractCodeReferences(todos[t].content)} : \E r \in 1..Len(refs) :
            HitLineHolds(env.grep, refs[r].pattern, completionKeywords))
           => \E c \in 1..Len(response.cleanupReport.completedItems) :
                response.cleanupReport.completedItems[c].todo = todos[t]
      /\ (\E keywords \in {extractImplementationKeywords(todos[t].content)} :
            \E k \in 1..Len(keywords) : HitLineImplements(env.grep, keywords[k]))
           => \E c \in 1..Len(response.cleanupReport.supersededItems) :
                response.cleanupReport.supersededItems[c].todo = todos[t]

(***************************************************************************)
(* Properties of the record list the cleanup analyses                      *)
(***************************************************************************)

\* the distinct TODO records of an analysis
DistinctTodos(analysis) == SeqToSet(getAllTodos(analysis))

\* C27: applied to the result of analyzeComplete, the cleanup analyses each
\* extracted TODO once: totalAnalyzed is the number of distinct records of
\* the analysis and every duplicate group holds at least two distinct
\* records.
C27_EachTodoAnalysedOnce ==
  (CleanupDone /\ response.kind = "result") =>
    /\ response.cleanupReport.totalAnalyzed =
         Cardinality(DistinctTodos(response.analysis))
    /\ \A g \in 1..Len(response.cleanupReport.duplicateGroups) :
         Cardinality(SeqToSet(response.cleanupReport.duplicateGroups[g].todos)) >= 2

(***************************************************************************)
(* Properties of the result of the todos operation                         *)
(***************************************************************************)

\* C28: the result of todos is self-consistent: summary.total is the number
\* of returned records, and high_priority, medium_priority and
\* low_priority are the numbers of returned records of that priority.
C28_TodosSelfConsistent ==
  (request.name = "todos" /\ Answered) =>
    response.summary = generateSummary(response.todos)

(***************************************************************************)
(* Properties of validatedTodos and supersededTodos                        *)
(***************************************************************************)

\* the ids of a list of records
IdsOf(todos) == { todos[i].id : i \in 1..Len(todos) }

\* the supersession check of a record failed or found nothing: the
\* project was not registered, a search threw, or no result shows an
\* implementation
NotFoundSuperseded(e, todo) ==
  ~allSettled(e).treeSitterProject \/ ~checkIfSuperseded(e.ts, todo).superseded

C29_Step ==
  (response'.kind = "result" /\ "analysis" \in DOMAIN response') =>
    \A run \in {analyzeComplete(request'.projectPath.value, request'.context.value,
                                 env', ids)} :
    \A reprioritizedTodos \in {reprioritizeTodos(run.consolidated)} :
    \A validated \in {response'.analysis.validatedTodos} :
    \A superseded \in {response'.analysis.supersededTodos} :
      /\ run.result = response'.analysis
      /\ IdsOf(validated) \cap IdsOf(superseded) = {}
      /\ IdsOf(validated) \cup IdsOf(superseded) = IdsOf(reprioritizedTodos)
      /\ \A i \in 1..Len(reprioritizedTodos) :
           NotFoundSuperseded(env', reprioritizedTodos[i])
             => \E j \in 1..Len(validated) : validated[j] = reprioritizedTodos[i]

\* C29: in every normal result of analyzeComplete, validatedTodos and
\* supersededTodos partition the consolidated, re-prioritized records by
\* id: no id is in both lists, every consolidated record's id is in one of
\* them, and a record whose supersession check fails or finds nothing
\* stays in validatedTodos.
C29_PartitionById == [][C29_Step]_vars

\* an analysis with validated and superseded records, one validated record
\* being the target of a supersession check that found nothing or failed
C29_Witness ==
  /\ Answered /\ "analysis" \in DOMAIN response
  /\ allSettled(env).treeSitterProject
  /\ response.analysis.supersededTodos # <<>>
  /\ \E i \in 1..Len(response.analysis.validatedTodos) :
       /\ extractImplementationTerms(response.analysis.validatedTodos[i].content) # <<>>
       /\ ~checkIfSuperseded(env.ts, response.analysis.validatedTodos[i]).superseded


\* the line is one parseCheckboxTodo makes a record of
IsCheckboxLine(line) ==
  parseCheckboxTodo(line, MdFile, 1, <<>>, "medium", 1) # <<>>

\* line k belongs to a frontmatter block at the start of the document: the
\* first line is --- and no later --- line comes before line k, or line k
\* is the --- line that closes the block
InFrontmatter(lines, k) ==
  /\ IsRule(lines[1])
  /\ \A j \in 2..(k - 1) : ~IsRule(lines[j])

\* C30: every checkbox line outside a frontmatter block at the start of
\* the document yields a markdown-checkbox record, whatever lines precede
\* it; a --- line in the body does not stop the extraction.
C30_CheckboxesOutsideFrontmatter ==
  Parsed =>
    \A lines \in {MdLines} : \A k \in 1..Len(lines) :
      (IsCheckboxLine(lines[k]) /\ ~InFrontmatter(lines, k)) =>
        \E i \in 1..Len(response.todos) :
          /\ response.todos[i].source = SourceMarkdownCheckbox
          /\ response.todos[i].line = k

====
